---- MODULE Spec2Model ----
(***************************************************************************)
(* A model of the async-usb-host stack: the device-address / topology      *)
(* manager (src/src/device_addr.rs) and the mutex-guarded transfer engine  *)
(* (src/src/pipe.rs).                                                      *)
(***************************************************************************)
EXTENDS Integers, Sequences, FiniteSets, Bags, TLC

(***************************************************************************)
(* Bounds of the model.                                                    *)
(***************************************************************************)
\* capacity of the address table (the const generic NR_DEVICES)
NR_DEVICES == 3
\* downstream ports per hub that the environment uses
MaxPort == 2
\* concurrently running tasks: the supervisor and the class drivers
NumTasks == 2

(***************************************************************************)
(* types.rs: PortInfo, DevInfo, DataTog                                    *)
(***************************************************************************)
\* the "valid" flag kept in the highest bit of valid_parent_addr
ValidBit == 128

PortInfo_new(valid_parent_addr, port_on_parent) ==
    [valid_parent_addr |-> valid_parent_addr, port_on_parent |-> port_on_parent]

PortInfo_invalid == PortInfo_new(0, 0)

is_empty(pi) == (pi.valid_parent_addr \div ValidBit) % 2 = 0

\* Option<T>: None is the empty sequence, Some(x) the one-element sequence
None == <<>>

Some(x) == <<x>>

\* Option<u8>: the 7-bit parent address of a valid entry
parent_addr(pi) ==
    IF is_empty(pi) THEN None ELSE Some(pi.valid_parent_addr % ValidBit)

DevInfo_root_device(speed) ==
    [port |-> PortInfo_new(ValidBit, 0), transaction_translator |-> None, speed |-> speed]

\* 0x80 | addr, for a 7-bit addr
DevInfo_new(addr, port, transaction_translator, speed) ==
    [port |-> PortInfo_new(ValidBit + (addr % ValidBit), port),
     transaction_translator |-> transaction_translator,
     speed |-> speed]

DataTog_next(tog) == IF tog = "DATA0" THEN "DATA1" ELSE "DATA0"

(***************************************************************************)
(* State                                                                   *)
(***************************************************************************)
VARIABLES
    info,       \* DeviceAddressManager.info, indexed 0..NR_DEVICES-1
    handles,    \* bag of the DeviceHandles given out and not yet freed
    last,       \* the last address-manager call: its name, argument, result and pre-state
    lock,       \* USBHostPipe.inner: 0 when unlocked, else the task holding the guard
    task,       \* per task: the operation it runs, with its locals
    pipe_addr,  \* the address the hardware pipe was last set to (Pipe::set_addr)
    chan,       \* the InterruptChannel of the class driver
    hw,         \* the last call of a hardware primitive
    ret,        \* the last return of a public operation
    host,       \* Host of lib.rs: state, address_alloc, and the step it just took
    sup,        \* the hubs the supervisor drives, with the hub event just handled
    poll,       \* the ports of the hubs, with the requests of the Hub::poll just made
    disp,       \* USBDeviceDispatcher: its channel, its poller, and the step just taken
    client,     \* HostHandle of lib.rs: its two channels, and the client task using it
    unpin,      \* a StaticUnpinPoller on its own, with the call just made on it
    iter,       \* a DescriptorIterator: its buffer, its offset, the item just yielded
    bus         \* BusWrap: where its poll stands, and what the bus was asked to do

addrVars == <<info, handles, last>>

pipeVars == <<lock, task, pipe_addr, chan, hw, ret>>

\* the state of the parts that stand alone
auxVars == <<unpin, iter, bus>>

hostVars == <<host, sup, poll, disp, client, auxVars>>

vars == <<info, handles, last, lock, task, pipe_addr, chan, hw, ret, host, sup, poll,
          disp, client, unpin, iter, bus>>

Indices == 0 .. NR_DEVICES - 1

(***************************************************************************)
(* device_addr.rs: DeviceAddressManager                                    *)
(***************************************************************************)
DeviceAddressManager_new == [i \in Indices |-> PortInfo_invalid]

EmptySlots(tbl) == {i \in Indices : is_empty(tbl[i])}

FirstOf(S) == CHOOSE i \in S : \A j \in S : i <= j

\* the slot a buggy allocator would pick: the first slot, live or not
alloc_slot_Mutant(tbl) == 0

\* for i in 0..NR_DEVICES { if self.info[i].is_empty() { ... return } }
alloc_slot(tbl) == FirstOf(EmptySlots(tbl))

\* an address that is the slot index itself
alloc_address_Mutant(i) == i

\* the handle's address for slot i
alloc_address(i) == (i + 1) % 256

DeviceHandle(address, max_packet_size, parent) ==
    [address |-> address, max_packet_size |-> max_packet_size, parent |-> parent]

\* alloc_device_address: [info, handle]; the caller guarantees a free slot (else panic)
alloc_device_address(tbl, max_packet_size, parent) ==
    LET i == alloc_slot(tbl) IN
    [info   |-> [tbl EXCEPT ![i] = parent.port],
     handle |-> DeviceHandle(alloc_address(i), max_packet_size, parent)]

\* a free_address that leaves the slot as it is
free_address_Mutant(tbl, device_handle) == tbl

free_address(tbl, device_handle) ==
    [tbl EXCEPT ![device_handle.address - 1] = PortInfo_invalid]

free_all_addresses(tbl) ==
    [info |-> [i \in Indices |-> PortInfo_invalid],
     mask |-> {i + 1 : i \in {j \in Indices : ~is_empty(tbl[j])}}]

\* Option<usize>: the first slot holding dev_info
find_index(tbl, dev_info) ==
    LET hits == {i \in Indices : tbl[i] = dev_info} IN
    IF hits = {} THEN None ELSE Some(FirstOf(hits))

\* the nodes visited by find(parent, x), x first and the root last
RECURSIVE find_path(_, _)
find_path(parent, x) ==
    IF parent[x] = x THEN {x} ELSE {x} \cup find_path(parent, parent[x])

RECURSIVE find_root(_, _)
find_root(parent, x) ==
    IF parent[x] = x THEN x ELSE find_root(parent, parent[x])

\* fn find: the root of x, and the parent array after path compression
find(parent, x) ==
    LET r == find_root(parent, x)
        path == find_path(parent, x) IN
    [root |-> r, parent |-> [i \in DOMAIN parent |-> IF i \in path THEN r ELSE parent[i]]]

\* fn union: union by rank of the components of x and y
union(parent, rank, x, y) ==
    LET fx == find(parent, x)
        fy == find(fx.parent, y)
        x_root == fx.root
        y_root == fy.root
        p == fy.parent IN
    IF x_root = y_root THEN [parent |-> p, rank |-> rank]
    ELSE IF rank[x_root] < rank[y_root]
         THEN [parent |-> [p EXCEPT ![x_root] = y_root], rank |-> rank]
    ELSE IF rank[x_root] > rank[y_root]
         THEN [parent |-> [p EXCEPT ![y_root] = x_root], rank |-> rank]
    ELSE [parent |-> [p EXCEPT ![y_root] = x_root],
          rank   |-> [rank EXCEPT ![x_root] = rank[x_root] + 1]]

\* the loop "Build connected components": slots i..NR_DEVICES-1 still to visit
RECURSIVE build_components(_, _, _)
build_components(tbl, uf, i) ==
    IF i >= NR_DEVICES THEN uf
    ELSE IF ~is_empty(tbl[i]) /\ parent_addr(tbl[i])[1] > 0
         THEN build_components(tbl,
                  union(uf.parent, uf.rank, i, parent_addr(tbl[i])[1] - 1), i + 1)
         ELSE build_components(tbl, uf, i + 1)

\* no live slot taken for the root: the devices cut off from it are not looked for
root_component_Mutant(tbl, parent) == None

\* the loop "Find root component": Option<usize>
root_component(tbl, parent) ==
    LET roots == {i \in Indices : ~is_empty(tbl[i]) /\ parent_addr(tbl[i]) = Some(0)} IN
    IF roots = {} THEN None ELSE Some(find(parent, FirstOf(roots)).root)

\* free_subtree: [info, mask]
free_subtree(tbl, dev_info) ==
    LET idx == find_index(tbl, dev_info) IN
    IF idx = None THEN [info |-> tbl, mask |-> {}]
    ELSE
      LET tbl1 == [tbl EXCEPT ![idx[1]] = PortInfo_invalid]
          uf0  == [parent |-> [i \in Indices |-> i], rank |-> [i \in Indices |-> 0]]
          uf   == build_components(tbl1, uf0, 0)
          root == root_component(tbl1, uf.parent)
          gone == IF root = None THEN {}
                  ELSE {i \in Indices :
                          ~is_empty(tbl1[i]) /\ find(uf.parent, i).root # root[1]} IN
      [info |-> [i \in Indices |-> IF i \in gone THEN PortInfo_invalid ELSE tbl1[i]],
       mask |-> {idx[1] + 1} \cup {i + 1 : i \in gone}]

(***************************************************************************)
(* pipe.rs: USBHostPipeInner, the engine-level transactions.  A task's     *)
(* record holds the locals of the operation it runs; pc names the hardware *)
(* primitive (Pipe::setup / split / data_in / data_out) it awaits next.    *)
(***************************************************************************)
Ok(n) == [ok |-> TRUE, n |-> n, e |-> "-"]

Err(e) == [ok |-> FALSE, n |-> 0, e |-> e]

\* an await that never resolves: the hardware primitive never completes
Pending == Err("Pending")

HasTT(s) == s.dev_info.transaction_translator # None

\* split_data_in line 221: the complete-split retry budget is used up
csplit_exhausted_Mutant(csplit_count) == csplit_count >= 6

csplit_exhausted(csplit_count) == csplit_count >= 5

\* split_data_in line 173: for _ in 0..3
SSPLIT_ROUNDS == 3

\* setup(), data_in() and data_out() each start a fresh Timer::after(TRANSFER_TIMEOUT):
\* timer tells the timer of one transaction from that of the next
\* setup(): split_setup for a device behind a TT, else the SETUP itself
begin_setup(s) ==
    [s EXCEPT !.pc = IF HasTT(s) THEN "ss_tok_setup" ELSE "setup", !.timer = 1 - @]

\* data_in(): split_data_in for a device behind a TT, else the IN itself
begin_data_in(s) ==
    [s EXCEPT !.pc = IF HasTT(s) THEN "ss_tok_in" ELSE "in", !.timer = 1 - @,
              !.round = 0, !.csplit_count = 0, !.m_rounds = 0, !.m_cs = 0]

\* data_out(): split_data_out for a device behind a TT, else the OUT itself
begin_data_out(s) ==
    [s EXCEPT !.pc = IF HasTT(s) THEN "ss_tok_out" ELSE "out", !.timer = 1 - @]

\* the hardware positions that run under select(Timer::after(TRANSFER_TIMEOUT), ..)
TimedPcs == {"setup", "in", "ss_tok_in", "ss_in", "cs_tok_in", "cs_in",
             "out", "ss_tok_out", "ss_out", "cs_tok_out", "cs_out"}

SetupPcs == {"setup", "ss_setup", "cs_setup"}
SplitPcs == {"ss_tok_setup", "cs_tok_setup", "ss_tok_in", "cs_tok_in", "ss_tok_out", "cs_tok_out"}
DataInPcs == {"in", "ss_in", "cs_in"}
DataOutPcs == {"out", "ss_out", "cs_out"}
HwPcs == SetupPcs \cup SplitPcs \cup DataInPcs \cup DataOutPcs

\* the record after the transaction ended with result r
txn_end(s, r) == [s EXCEPT !.pc = "txn_end", !.res = r]

\* the complete-split of split_data_in answered NYET (lines 208-225)
csplit_in_nyet(s) ==
    IF csplit_exhausted(s.csplit_count + 1)
    THEN IF s.round + 1 >= SSPLIT_ROUNDS
         THEN txn_end(s, Err("STALL"))
         ELSE [s EXCEPT !.pc = "ss_tok_in", !.round = s.round + 1,
                        !.csplit_count = s.csplit_count + 1]
    ELSE [s EXCEPT !.pc = "cs_tok_in", !.csplit_count = s.csplit_count + 1]

\* one hardware primitive completed with o (or never completes: Pending); the
\* record at the next primitive of the same transaction, or at the transaction's end
hw_step(s, o) ==
    IF o = Pending
    THEN IF s.pc \in TimedPcs THEN txn_end(s, Err("TransferTimeout"))
         ELSE [s EXCEPT !.pc = "hung"]
    ELSE CASE s.pc \in {"setup", "in", "out"} -> txn_end(s, o)
           [] s.pc \in SplitPcs ->
                IF o.ok
                THEN [s EXCEPT !.pc = CASE s.pc = "ss_tok_setup" -> "ss_setup"
                                        [] s.pc = "cs_tok_setup" -> "cs_setup"
                                        [] s.pc = "ss_tok_in" -> "ss_in"
                                        [] s.pc = "cs_tok_in" -> "cs_in"
                                        [] s.pc = "ss_tok_out" -> "ss_out"
                                        [] s.pc = "cs_tok_out" -> "cs_out"]
                ELSE txn_end(s, o)
           [] s.pc = "ss_setup" ->
                IF o.ok THEN [s EXCEPT !.pc = "cs_tok_setup"]
                ELSE IF o.e = "NAK" THEN [s EXCEPT !.pc = "ss_tok_setup"]
                ELSE txn_end(s, o)
           [] s.pc = "cs_setup" ->
                IF o.ok THEN txn_end(s, Ok(0))
                ELSE IF o.e = "NYET" THEN [s EXCEPT !.pc = "cs_tok_setup"]
                ELSE txn_end(s, o)
           [] s.pc = "ss_in" ->
                IF o.ok THEN [s EXCEPT !.pc = "cs_tok_in", !.csplit_count = 0]
                ELSE IF o.e = "NAK" THEN [s EXCEPT !.pc = "ss_tok_in"]
                ELSE txn_end(s, o)
           [] s.pc = "cs_in" ->
                IF o.ok THEN txn_end(s, o)
                ELSE IF o.e = "NYET" THEN csplit_in_nyet(s)
                ELSE txn_end(s, o)
           [] s.pc = "ss_out" ->
                IF o.ok THEN [s EXCEPT !.pc = "cs_tok_out"]
                ELSE IF o.e = "NAK" THEN [s EXCEPT !.pc = "ss_tok_out"]
                ELSE txn_end(s, o)
           [] s.pc = "cs_out" ->
                IF o.ok THEN txn_end(s, Ok(0))
                ELSE IF o.e = "NYET" THEN [s EXCEPT !.pc = "cs_tok_out"]
                ELSE txn_end(s, o)

(***************************************************************************)
(* pipe.rs: USBHostPipe, the public operations                             *)
(***************************************************************************)
\* core::mem::size_of::<DeviceDescriptor>()
DEVICE_DESCRIPTOR_SIZE == 18

\* the operation returns r: the guard is dropped by the caller of op_step
return(s, r) == [s EXCEPT !.pc = "return", !.res = r]

\* the status stage: a zero-length transaction with DataTog::DATA1, IN for a
\* HostToDevice request and OUT for a DeviceToHost one
begin_status(s) ==
    IF s.dir = "HostToDevice"
    THEN begin_data_in([s EXCEPT !.stage = "status", !.tog = "DATA1"])
    ELSE begin_data_out([s EXCEPT !.stage = "status", !.tog = "DATA1"])

\* the toggle of the next data-stage IN after one that returned Ok
data_tog_after_Mutant(tog) == tog

data_tog_after(tog) == DataTog_next(tog)

\* a data-stage IN returned Ok(n): tog.next(); bytes += n
data_in_ok(s) ==
    [s EXCEPT !.tog = data_tog_after(s.tog), !.bytes = s.bytes + s.res.n,
              !.m_in_ok = 1 - s.m_in_ok]

\* a packet that ends the data stage however long
short_packet_Mutant(len, max_packet_size) == len = 0

\* control_transfer line 593: len < device_handle.max_packet_size()
short_packet(len, max_packet_size) == len < max_packet_size

\* control_transfer after the transaction of s.stage ended with s.res; the data
\* stage of a HostToDevice request is todo!(), a panic
control_transfer_step(s) ==
    CASE s.stage = "setup" ->
            IF ~s.res.ok THEN return(s, s.res)
            ELSE IF s.length > 0
                 THEN IF s.dir = "HostToDevice" THEN [s EXCEPT !.pc = "panic"]
                      ELSE begin_data_in([s EXCEPT !.stage = "data", !.tog = "DATA1"])
                 ELSE begin_status(s)
      [] s.stage = "data" ->
            IF s.res.ok
            THEN IF short_packet(s.res.n, s.max_packet_size)
                 THEN begin_status(data_in_ok(s))
                 ELSE begin_data_in(data_in_ok(s))
            ELSE IF s.res.e = "NAK" THEN begin_data_in(s)
            ELSE return(s, s.res)
      [] s.stage = "status" ->
            IF s.res.ok THEN return(s, Ok(s.bytes))
            ELSE IF s.res.e = "NAK" THEN begin_status(s)
            ELSE return(s, s.res)

\* interrupt_transfer after its one transaction ended: no retry
interrupt_transfer_step(s) ==
    IF s.res.ok THEN return(s, IF s.dir = "In" THEN s.res ELSE Ok(0))
    ELSE return(s, s.res)

\* the channel's toggle after interrupt_transfer returned r
interrupt_tog_after_Mutant(tog, r) == DataTog_next(tog)

interrupt_tog_after(tog, r) == IF r.ok THEN DataTog_next(tog) ELSE tog

\* a Set_Address request that carries no address
set_address_value_Mutant(handle) == 0

\* assign_device_address line 417: value: handle.address() as u16
set_address_value(handle) == handle.address

\* get_device_descriptor, then assign_device_address, after the transaction of
\* s.stage ended; desc is what the 18 bytes read parse to: 0 for no device descriptor, else
\* its max_packet_size
dev_attach_step(s, desc) ==
    CASE s.stage = "gd_setup" ->
            IF ~s.res.ok THEN return(s, s.res)
            ELSE begin_data_in([s EXCEPT !.stage = "gd_data", !.tog = "DATA1"])
      [] s.stage = "gd_data" ->
            IF s.res.ok
            THEN IF s.bytes + s.res.n < DEVICE_DESCRIPTOR_SIZE
                 THEN begin_data_in(data_in_ok(s))
                 ELSE begin_data_out([data_in_ok(s) EXCEPT !.stage = "gd_status",
                                                           !.tog = "DATA1"])
            ELSE IF s.res.e = "NAK" THEN begin_data_in(s)
            ELSE return(s, s.res)
      [] s.stage = "gd_status" ->
            IF s.res.ok
            THEN IF desc = 0 THEN return(s, Err("InvalidResponse"))
                 ELSE [s EXCEPT !.pc = "lock", !.stage = "sa_lock",
                                !.max_packet_size = desc, !.m_desc = desc]
            ELSE IF s.res.e = "NAK" THEN begin_data_out(s)
            ELSE return(s, s.res)
      [] s.stage = "sa_setup" ->
            IF ~s.res.ok THEN return(s, s.res)
            ELSE begin_data_in([s EXCEPT !.stage = "sa_status", !.tog = "DATA1"])
      [] s.stage = "sa_status" ->
            IF s.res.ok THEN return(s, Ok(0))
            ELSE IF s.res.e = "NAK" THEN begin_data_in(s)
            ELSE return(s, s.res)

op_step(s, desc) ==
    CASE s.op = "control_transfer" -> control_transfer_step(s)
      [] s.op = "interrupt_transfer" -> interrupt_transfer_step(s)
      [] s.op = "dev_attach" -> dev_attach_step(s, desc)

\* the task runs from the completion o of the primitive it awaits to its next await
resume(s, o, desc) ==
    LET s1 == hw_step(s, o) IN
    IF s1.pc = "txn_end" THEN op_step(s1, desc) ELSE s1

(***************************************************************************)
(* Tasks and the hardware                                                  *)
(***************************************************************************)
Tasks == 1 .. NumTasks

\* the task that runs Host: the only caller of dev_attach, root_detach, dev_detach
Supervisor == 1

DevInfo_empty ==
    [port |-> PortInfo_invalid, transaction_translator |-> None, speed |-> "LowSpeed"]

NoHandle == DeviceHandle(0, 0, DevInfo_empty)

TaskIdle ==
    [op |-> "none", pc |-> "idle", stage |-> "none",
     dev_info |-> DevInfo_empty, address |-> 0, max_packet_size |-> 0,
     dir |-> "-", length |-> 0, tog |-> "DATA0", bytes |-> 0,
     round |-> 0, csplit_count |-> 0, res |-> Ok(0), new_handle |-> NoHandle,
     value |-> 0, timer |-> 0, m_rounds |-> 0, m_cs |-> 0, m_in_ok |-> 0,
     calls |-> FALSE, m_info |-> DeviceAddressManager_new, m_desc |-> 0, m_sum |-> 0]

NoChannel == [device_handle |-> NoHandle, direction |-> "-", tog |-> "DATA0",
              user |-> 0, m_ok |-> 0]

NoHw == [task |-> 0, op |-> "none", stage |-> "none", pc |-> "idle", call |-> "none",
         addr |-> 0, tog |-> "DATA0", out |-> "-", txn |-> "-", lock |-> 0,
         busy_xfer |-> {}, busy_attach |-> {}, in_ok |-> 0, chan_tog |-> "DATA0",
         tt |-> None, target |-> 0, n |-> 0]

NoRet == [task |-> 0, op |-> "none", stage |-> "none", res |-> Ok(0), via |-> "idle",
          out |-> "-", rounds |-> 0, cs |-> 0, info0 |-> DeviceAddressManager_new,
          value |-> 0, handle |-> NoHandle, desc |-> 0, sum |-> 0]

\* the errors Pipe primitives report (errors.rs: USB device packet level errors)
HwErrors == {"NAK", "NYET", "STALL"}

\* the lengths of the packets a device sends
PacketLens == {0, 2, 8}

\* the room left in the buffer handed to data_in
Room(s) ==
    CASE s.stage = "data" -> s.length - s.bytes
      [] s.stage = "gd_data" -> DEVICE_DESCRIPTOR_SIZE - s.bytes
      [] s.stage = "xfer" -> s.length
      [] OTHER -> 0

\* what the primitive awaited at s.pc can complete with
Outcomes(s) ==
    {Pending} \cup {Err(e) : e \in HwErrors}
    \cup (IF s.pc \in {"in", "cs_in"}
          THEN {Ok(n) : n \in {m \in PacketLens :
                                 m <= Room(s) /\ (s.max_packet_size = 0 \/ m <= s.max_packet_size)}}
          ELSE {Ok(0)})

\* what the bytes of a completed descriptor read parse to
DescInputs == {0, 8}

\* embassy Mutex::lock: the guard is granted when nobody holds the lock
mutex_free_Mutant(l) == TRUE

mutex_free(l) == l = 0

NoCall == [op |-> "none", arg |-> PortInfo_invalid, mask |-> {},
           pre |-> DeviceAddressManager_new]

\* hw, ret and last describe the step just taken: a step that calls no hardware
\* primitive leaves NoHw, one that returns from no operation NoRet, one that does
\* not call the address manager NoCall
NoEvents == hw' = NoHw /\ ret' = NoRet /\ last' = NoCall

(***************************************************************************)
(* lib.rs: Host, its HostState and its DeviceAddressAllocator              *)
(***************************************************************************)
\* the bytes of the bitmap that alloc_device_address scans
ALLOC_BYTES == 8

\* the addresses the scan covers: bit_offset 0..7 of each scanned byte
AllocAddresses == 0 .. ALLOC_BYTES * 8 - 1

\* DeviceAddressAllocator::new: address 0 is always used
DeviceAddressAllocator_new == {0}

\* Event of the bus
Events == {"DeviceAttach", "DeviceDetach", "Suspend", "Resume"}

\* what one step of the host leaves behind: the bus event it handled, the stage of
\* the enumeration that failed in it, the message it sent to a client
NoStep == [ev |-> "none", err |-> "none", msg |-> "none"]

\* Host::new; run is the host task: running, returned from run_until_suspend, or
\* panicked
Host_new ==
    [state |-> "Initializing", address_alloc |-> DeviceAddressAllocator_new,
     run |-> "running", pc |-> "-", addr |-> 0, class |-> "-", step |-> NoStep]

(***************************************************************************)
(* driver/hub.rs: HubEvent, and the hubs the supervisor polls              *)
(***************************************************************************)
\* Option<HubEvent>: no event; hub is the handle of the hub that reports a
\* DeviceAttach or a DeviceDetach
NoHubEvent == [kind |-> "None", dev_info |-> DevInfo_empty, hub |-> NoHandle]

\* hubs is the list of the Hub drivers (each its DeviceHandle), emitted the mask of
\* the DeviceDetach event sent to the clients in the step, dropped the addresses of
\* the hubs the step removed from hubs; build selects what the
\* three-argument DevInfo::new called by the hub driver computes
NoHubs ==
    [hubs |-> <<>>, enumeration_in_progress |-> FALSE, event |-> NoHubEvent,
     emitted |-> None, dropped |-> {}, build |-> "no_tt"]

\* the ports of a hub
Ports == 1 .. MaxPort

\* the ports of the hubs, named by the hub's address and the port's number
HubPorts == (1 .. NR_DEVICES) \X Ports

\* the bits of a port that Get_Port_Status reports and the feature requests
\* change; a port with nothing on it and nothing to report
PortIdle == [connected |-> FALSE, c_connection |-> FALSE, reset |-> FALSE, c_reset |-> FALSE]

\* no transfer of the poll fails
NoFail == [port |-> 0, k |-> 0]

\* what a Hub::poll leaves when it made no request and returned Ok(None)
PollNothing ==
    [asked |-> {}, read |-> {}, reqs |-> <<>>, done |-> <<>>,
     event |-> NoHubEvent, res |-> "Ok"]

\* the step that is no poll
NoPollStep ==
    [hub |-> 0, eip |-> FALSE, irq |-> "-", report |-> <<>>,
     out |-> PollNothing, attach |-> "-"]

\* no hub polled yet: idle ports, no port under reset, no port deferred, no device
\* enumerated from a port
NoPolls ==
    [ports |-> [hp \in HubPorts |-> PortIdle], resetting |-> None, deferred |-> {},
     origin |-> [i \in Indices |-> None], run |-> "running", step |-> NoPollStep]

\* futures.rs SlotState::Empty: a slot of the poller that holds no future; an
\* occupied slot holds the run() of a class driver: the address of its device,
\* where it waits, and whether the device was detached since
SlotEmpty == [state |-> "Empty", device |-> 0, pc |-> "-", gone |-> FALSE]

\* StaticUnpinPoller::new
StaticUnpinPoller_new == [i \in Indices |-> SlotEmpty]

\* the step that is none of the dispatcher's
NoDispStep == [kind |-> "none", slot |-> None, device |-> 0, err |-> FALSE, res |-> "-"]

\* USBDeviceDispatcher::new and the poller of run_inner; HDD is the class driver
USBDeviceDispatcher_new ==
    [HDD |-> "HidKbd", new_dev |-> None, poller |-> StaticUnpinPoller_new,
     run |-> "running", step |-> NoDispStep]

\* Init: USBHostPipe::new, no task running
\* lib.rs, HostHandle::new, and the client task before it registers: what each
\* channel holds, whether the client holds the DeviceHandle of a NewDevice, and the
\* message its last receive took
HostHandle_new ==
    [host2client |-> None, client2host |-> None, pc |-> "start", handle |-> FALSE,
     got |-> "none"]

\* what a call on the poller leaves behind: the slots it polled, in order, the
\* result, and the slot and the task of the output
NoPollerStep == [op |-> "none", polled |-> <<>>, res |-> "-", index |-> None, task |-> 0]

\* futures.rs, a poller just made; a task is known by its number, inserted tasks
\* are numbered from 1, and returned holds the tasks whose output was returned
NoPoller ==
    [states |-> StaticUnpinPoller_new, inserted |-> 0, returned |-> {},
     step |-> NoPollerStep]

\* descriptor/mod.rs, DescriptorIterator::new; item is the result of the last next()
DescriptorIterator_new(buf) ==
    [buf |-> buf, offset |-> 0, item |-> "-", before |-> 0]

\* bus.rs, BusWrap::new: the poll not begun, no event of the bus taken, no reset
\* asked of it, nothing delivered; resets counts the resets the bus completed
BusWrap_new ==
    [pc |-> "idle", raw |-> "none", reset |-> FALSE, resets |-> 0, log |-> <<>>]

Init ==
    /\ info = DeviceAddressManager_new
    /\ handles = EmptyBag
    /\ last = NoCall
    /\ lock = 0
    /\ task = [t \in Tasks |-> TaskIdle]
    /\ pipe_addr = 0
    /\ chan = NoChannel
    /\ hw = NoHw
    /\ ret = NoRet
    /\ host = Host_new
    /\ sup = NoHubs
    /\ poll = NoPolls
    /\ disp = USBDeviceDispatcher_new
    /\ client = HostHandle_new
    /\ unpin = NoPoller
    /\ iter = DescriptorIterator_new(<<>>)
    /\ bus = BusWrap_new

(***************************************************************************)
(* The callers of the address manager.  A hub reports an attach only on a  *)
(* port that holds no device, and only the root port has parent address 0. *)
(***************************************************************************)
LiveSlots(tbl) == {i \in Indices : ~is_empty(tbl[i])}

PortFree(tbl, pi) == \A i \in Indices : tbl[i] # pi

\* the DevInfo values an attach can carry in table state tbl: the root device, or
\* a device on a port of a live address
AttachDevInfos(tbl) ==
    {d \in {DevInfo_root_device("HighSpeed")}
            \cup {DevInfo_new(i + 1, p, None, "HighSpeed") :
                      i \in LiveSlots(tbl), p \in 1 .. MaxPort} :
        PortFree(tbl, d.port)}

\* bMaxPacketSize0 of the attached device
AddrMaxPacketSizes == {8}

AllocDeviceAddress(max_packet_size, parent) ==
    /\ UNCHANGED hostVars
    /\ EmptySlots(info) # {}
    /\ LET r == alloc_device_address(info, max_packet_size, parent) IN
       /\ info' = r.info
       /\ handles' = handles (+) SetToBag({r.handle})
       /\ last' = [op |-> "alloc_device_address", arg |-> parent.port,
                   mask |-> {r.handle.address}, pre |-> info]
       /\ UNCHANGED pipeVars

FreeAddress(device_handle) ==
    /\ UNCHANGED hostVars
    /\ info' = free_address(info, device_handle)
    /\ handles' = handles (-) SetToBag({device_handle})
    /\ last' = [op |-> "free_address", arg |-> device_handle.parent.port,
                mask |-> {device_handle.address}, pre |-> info]
    /\ UNCHANGED pipeVars

\* the handles whose address a disconnect mask names are gone
DropHandles(hs, mask) ==
    [h \in {x \in BagToSet(hs) : x.address \notin mask} |-> hs[h]]

FreeAllAddresses ==
    /\ UNCHANGED hostVars
    /\ LET r == free_all_addresses(info) IN
       /\ info' = r.info
       /\ handles' = DropHandles(handles, r.mask)
       /\ last' = [op |-> "free_all_addresses", arg |-> PortInfo_invalid,
                   mask |-> r.mask, pre |-> info]
       /\ UNCHANGED pipeVars

FreeSubtree(dev_info) ==
    /\ UNCHANGED hostVars
    /\ LET r == free_subtree(info, dev_info) IN
       /\ info' = r.info
       /\ handles' = DropHandles(handles, r.mask)
       /\ last' = [op |-> "free_subtree", arg |-> dev_info,
                   mask |-> r.mask, pre |-> info]
       /\ UNCHANGED pipeVars

\* the ports a detach can name: those of the live nodes, and one that holds no device
DetachPorts(tbl) ==
    {tbl[i] : i \in LiveSlots(tbl)} \cup {PortInfo_new(ValidBit + 1, MaxPort)}

AddrNext ==
    \/ \E m \in AddrMaxPacketSizes, d \in AttachDevInfos(info) : AllocDeviceAddress(m, d)
    \/ \E h \in BagToSet(handles) : FreeAddress(h)
    \/ FreeAllAddresses
    \/ \E pi \in DetachPorts(info) : FreeSubtree(pi)

SpecAddr == Init /\ [][AddrNext]_vars

(***************************************************************************)
(* The transfer engine as the tasks drive it (pipe.rs, impl USBHostPipe)   *)
(***************************************************************************)
\* the DevInfo values dev_attach is called with: the root device, and a low-speed
\* device behind the TT of port 1 of the root hub
PipeDevInfos(tbl) ==
    {d \in {DevInfo_root_device("HighSpeed"),
            DevInfo_new(1, 1, Some(<<1, 1>>), "LowSpeed")} :
        /\ PortFree(tbl, d.port)
        /\ parent_addr(d.port)[1] > 0 => ~is_empty(tbl[parent_addr(d.port)[1] - 1])}

\* dfu.rs: the DFU_DNLOAD request of UsbDfu::run, HostToDevice with wLength 8
DnloadRequest == <<"HostToDevice", 8>>

\* the (direction, wLength) pairs of the requests issued: Get_Descriptor(Device),
\* a request with no data stage, and the DFU download
Requests == {<<"DeviceToHost", 18>>, <<"HostToDevice", 0>>, DnloadRequest}

\* the size of the report buffer handed to interrupt_transfer
REPORT_SIZE == 8

Idle(t) == task[t].pc = "idle"

\* a task calls control_transfer(device_handle, request, buffer)
CallControlTransfer(t, device_handle, dir, length) ==
    /\ UNCHANGED hostVars
    /\ Idle(t)
    /\ task' = [task EXCEPT ![t] =
                  [TaskIdle EXCEPT !.op = "control_transfer", !.pc = "lock",
                                   !.dev_info = device_handle.parent,
                                   !.address = device_handle.address,
                                   !.max_packet_size = device_handle.max_packet_size,
                                   !.dir = dir, !.length = length]]
    /\ NoEvents
    /\ UNCHANGED <<info, handles, lock, pipe_addr, chan>>

\* a class driver makes its channel: InterruptChannel::new
NewInterruptChannel(device_handle, direction) ==
    /\ UNCHANGED hostVars
    /\ chan.user = 0
    /\ chan' = [device_handle |-> device_handle, direction |-> direction,
                tog |-> "DATA0", user |-> 0, m_ok |-> 0]
    /\ NoEvents
    /\ UNCHANGED <<info, handles, lock, task, pipe_addr>>

\* a task calls interrupt_transfer(&mut interrupt_channel, buf)
CallInterruptTransfer(t) ==
    /\ UNCHANGED hostVars
    /\ Idle(t)
    /\ chan # NoChannel
    /\ chan.user = 0
    /\ chan' = [chan EXCEPT !.user = t]
    /\ task' = [task EXCEPT ![t] =
                  [TaskIdle EXCEPT !.op = "interrupt_transfer", !.pc = "lock",
                                   !.dev_info = chan.device_handle.parent,
                                   !.address = chan.device_handle.address,
                                   !.max_packet_size = chan.device_handle.max_packet_size,
                                   !.dir = chan.direction, !.length = REPORT_SIZE]]
    /\ NoEvents
    /\ UNCHANGED <<info, handles, lock, pipe_addr>>

\* the supervisor calls dev_attach(dev_info); the table has room (else alloc panics)
CallDevAttach(t, dev_info) ==
    /\ UNCHANGED hostVars
    /\ t = Supervisor
    /\ Idle(t)
    /\ EmptySlots(info) # {}
    /\ task' = [task EXCEPT ![t] =
                  [TaskIdle EXCEPT !.op = "dev_attach", !.pc = "lock", !.stage = "gd_lock",
                                   !.dev_info = dev_info, !.address = 0, !.m_info = info]]
    /\ NoEvents
    /\ UNCHANGED <<info, handles, lock, pipe_addr, chan>>

\* control_transfer or interrupt_transfer gets the guard and runs to its first await
LockTransfer(t) ==
    /\ UNCHANGED hostVars
    /\ task[t].pc = "lock"
    /\ task[t].op \in {"control_transfer", "interrupt_transfer"}
    /\ mutex_free(lock)
    /\ lock' = t
    /\ IF task[t].op = "control_transfer"
       THEN /\ task' = [task EXCEPT ![t] = begin_setup([@ EXCEPT !.stage = "setup"])]
            /\ UNCHANGED pipe_addr
       ELSE /\ task' = [task EXCEPT ![t] =
                          IF task[t].dir = "In"
                          THEN begin_data_in([@ EXCEPT !.stage = "xfer", !.tog = chan.tog])
                          ELSE begin_data_out([@ EXCEPT !.stage = "xfer", !.tog = chan.tog])]
            /\ pipe_addr' = task[t].address
    /\ NoEvents
    /\ UNCHANGED <<info, handles, chan>>

\* get_device_descriptor gets the guard
LockGetDeviceDescriptor(t) ==
    /\ UNCHANGED hostVars
    /\ task[t].pc = "lock"
    /\ task[t].op = "dev_attach"
    /\ task[t].stage = "gd_lock"
    /\ mutex_free(lock)
    /\ lock' = t
    /\ task' = [task EXCEPT ![t] = begin_setup([@ EXCEPT !.stage = "gd_setup"])]
    /\ NoEvents
    /\ UNCHANGED <<info, handles, pipe_addr, chan>>

\* assign_device_address gets the guard and reserves the address
LockAssignDeviceAddress(t) ==
    /\ UNCHANGED hostVars
    /\ task[t].pc = "lock"
    /\ task[t].op = "dev_attach"
    /\ task[t].stage = "sa_lock"
    /\ mutex_free(lock)
    /\ lock' = t
    /\ LET r == alloc_device_address(info, task[t].max_packet_size, task[t].dev_info) IN
       /\ info' = r.info
       /\ last' = [op |-> "alloc_device_address", arg |-> task[t].dev_info.port,
                   mask |-> {r.handle.address}, pre |-> info]
       /\ task' = [task EXCEPT ![t] =
                     begin_setup([@ EXCEPT !.stage = "sa_setup", !.new_handle = r.handle,
                                           !.value = set_address_value(r.handle)])]
    /\ hw' = NoHw
    /\ ret' = NoRet
    /\ UNCHANGED <<handles, pipe_addr, chan>>

\* root_detach: lock, free_all_addresses, unlock
RootDetach(t) ==
    /\ UNCHANGED hostVars
    /\ t = Supervisor
    /\ Idle(t)
    /\ mutex_free(lock)
    /\ LET r == free_all_addresses(info) IN
       /\ info' = r.info
       /\ handles' = DropHandles(handles, r.mask)
       /\ last' = [op |-> "free_all_addresses", arg |-> PortInfo_invalid,
                   mask |-> r.mask, pre |-> info]
    /\ ret' = [NoRet EXCEPT !.task = t, !.op = "root_detach"]
    /\ hw' = NoHw
    /\ UNCHANGED <<lock, task, pipe_addr, chan>>

\* dev_detach(port_info): lock, free_subtree, unlock
DevDetach(t, port_info) ==
    /\ UNCHANGED hostVars
    /\ t = Supervisor
    /\ Idle(t)
    /\ mutex_free(lock)
    /\ LET r == free_subtree(info, port_info) IN
       /\ info' = r.info
       /\ handles' = DropHandles(handles, r.mask)
       /\ last' = [op |-> "free_subtree", arg |-> port_info,
                   mask |-> r.mask, pre |-> info]
    /\ ret' = [NoRet EXCEPT !.task = t, !.op = "dev_detach"]
    /\ hw' = NoHw
    /\ UNCHANGED <<lock, task, pipe_addr, chan>>

\* a split token issued without set_addr(tt_addr)
addr_at_call_Mutant(s) == s.address

\* the address the pipe is set to when the primitive at s.pc is issued: the TT's for
\* a split token, the target's for SETUP and for the transaction after a split
\* token; a direct IN or OUT is issued without set_addr
addr_at_call(s) ==
    CASE s.pc \in SplitPcs -> s.dev_info.transaction_translator[1][1]
      [] s.pc \in {"in", "out"} -> pipe_addr
      [] OTHER -> s.address

\* the other tasks that have issued a hardware call in an operation not yet returned
Busy(t, ops) == {u \in Tasks \ {t} : task[u].calls /\ task[u].op \in ops}

Tag(o) == IF o.ok THEN "Ok" ELSE o.e

\* the counts of start-split rounds and complete-split attempts and the bytes of the
\* data-stage packets received, kept beside the code
Counted(s, o) ==
    [s EXCEPT !.calls = TRUE,
              !.m_sum = IF s.stage = "data" /\ s.pc \in {"in", "cs_in"} THEN @ + o.n ELSE @,
              !.m_cs = IF s.pc = "cs_in" THEN @ + 1
                       ELSE IF s.pc = "ss_in" /\ o.ok THEN 0 ELSE @,
              !.m_rounds = IF s.pc = "ss_in" /\ o.ok THEN @ + 1 ELSE @]

DescChoices(s, o) ==
    IF s.stage = "gd_status" /\ s.pc \in {"out", "cs_out"} /\ o.ok THEN DescInputs ELSE {0}

\* task t's hardware primitive `call` completes with o; t runs to its next await
HwCall(t, call, o, desc) ==
    LET s == task[t]
        new == resume(Counted(s, o), o, desc)
        returns == new.pc = "return"
    IN
    /\ UNCHANGED hostVars
    /\ task' = [task EXCEPT ![t] = IF returns THEN TaskIdle ELSE new]
    /\ lock' = IF new.pc \in {"return", "lock"} THEN 0 ELSE lock
    /\ pipe_addr' = addr_at_call(s)
    /\ hw' = [task |-> t, op |-> s.op, stage |-> s.stage, pc |-> s.pc, call |-> call,
              addr |-> addr_at_call(s), tog |-> s.tog, out |-> Tag(o),
              txn |-> IF new.pc = "hung" THEN "never"
                      ELSE IF hw_step(s, o).pc = "txn_end" THEN Tag(hw_step(s, o).res)
                      ELSE "-",
              lock |-> lock,
              busy_xfer |-> Busy(t, {"control_transfer", "interrupt_transfer"}),
              busy_attach |-> Busy(t, {"dev_attach"}),
              in_ok |-> s.m_in_ok, chan_tog |-> chan.tog,
              tt |-> s.dev_info.transaction_translator, target |-> s.address,
              n |-> o.n]
    /\ ret' = IF returns
              THEN [task |-> t, op |-> s.op, stage |-> s.stage, res |-> new.res,
                    via |-> s.pc, out |-> Tag(o), rounds |-> new.m_rounds, cs |-> new.m_cs,
                    info0 |-> s.m_info, value |-> s.value, handle |-> s.new_handle,
                    desc |-> s.m_desc, sum |-> new.m_sum]
              ELSE NoRet
    /\ chan' = IF returns /\ s.op = "interrupt_transfer"
               THEN [chan EXCEPT !.tog = interrupt_tog_after(chan.tog, new.res),
                                 !.user = 0,
                                 !.m_ok = IF new.res.ok THEN 1 - @ ELSE @]
               ELSE chan
    /\ IF returns /\ s.stage \in {"sa_setup", "sa_status"}
       THEN IF new.res.ok
            THEN /\ handles' = handles (+) SetToBag({s.new_handle})
                 /\ last' = NoCall
                 /\ UNCHANGED info
            ELSE /\ info' = free_address(info, s.new_handle)
                 /\ last' = [op |-> "free_address", arg |-> s.dev_info.port,
                             mask |-> {s.new_handle.address}, pre |-> info]
                 /\ UNCHANGED handles
       ELSE /\ last' = NoCall
            /\ UNCHANGED <<info, handles>>

PipeSetup(t) ==
    /\ task[t].pc \in SetupPcs
    /\ \E o \in Outcomes(task[t]) : HwCall(t, "setup", o, 0)

PipeSplit(t) ==
    /\ task[t].pc \in SplitPcs
    /\ \E o \in Outcomes(task[t]) : HwCall(t, "split", o, 0)

PipeDataIn(t) ==
    /\ task[t].pc \in DataInPcs
    /\ \E o \in Outcomes(task[t]) : HwCall(t, "data_in", o, 0)

PipeDataOut(t) ==
    /\ task[t].pc \in DataOutPcs
    /\ \E o \in Outcomes(task[t]) :
         \E desc \in DescChoices(task[t], o) : HwCall(t, "data_out", o, desc)

\* the ports a hub's DeviceDetach names: DevInfo::new(hub address, port)
HubDetachPorts(tbl) ==
    {pi \in DetachPorts(tbl) : parent_addr(pi)[1] > 0}

TaskStep(t) ==
    \/ LockTransfer(t)
    \/ LockGetDeviceDescriptor(t)
    \/ LockAssignDeviceAddress(t)
    \/ PipeSetup(t)
    \/ PipeSplit(t)
    \/ PipeDataIn(t)
    \/ PipeDataOut(t)

\* the engine driven by one task, the supervisor, one operation after the other
Next ==
    \/ \E h \in BagToSet(handles), r \in Requests :
          CallControlTransfer(Supervisor, h, r[1], r[2])
    \/ \E h \in BagToSet(handles), d \in {"In", "Out"} : NewInterruptChannel(h, d)
    \/ CallInterruptTransfer(Supervisor)
    \/ \E d \in PipeDevInfos(info) : CallDevAttach(Supervisor, d)
    \/ RootDetach(Supervisor)
    \/ \E pi \in HubDetachPorts(info) : DevDetach(Supervisor, pi)
    \/ LockTransfer(Supervisor)
    \/ LockGetDeviceDescriptor(Supervisor)
    \/ LockAssignDeviceAddress(Supervisor)
    \/ PipeSetup(Supervisor)
    \/ PipeSplit(Supervisor)
    \/ PipeDataIn(Supervisor)
    \/ PipeDataOut(Supervisor)

Spec == Init /\ [][Next]_vars

\* the primitive awaited at pc
CallOf(pc) ==
    CASE pc \in SetupPcs -> "setup"
      [] pc \in SplitPcs -> "split"
      [] pc \in DataInPcs -> "data_in"
      [] pc \in DataOutPcs -> "data_out"

\* timer b of task t wins the select: the transaction ends with TransferTimeout
TimerFires(t, b) ==
    /\ task[t].pc \in TimedPcs
    /\ task[t].timer = b
    /\ HwCall(t, CallOf(task[t].pc), Pending, 0)

\* the executor polls the task whenever it can run, and a timer fires unless the
\* transaction it bounds has ended; the hardware answers as it likes
SpecFair ==
    /\ Spec
    /\ WF_vars(TaskStep(Supervisor))
    /\ \A b \in {0, 1} : WF_vars(TimerFires(Supervisor, b))

\* the devices of the concurrent runs: the root device and a high-speed device on
\* port 1 of the root hub, neither behind a TT (no split token is issued)
DirectDevInfos(tbl) == {d \in PipeDevInfos(tbl) : d.transaction_translator = None}
                       \cup {d \in {DevInfo_new(1, 1, None, "HighSpeed")} :
                               PortFree(tbl, d.port) /\ ~is_empty(tbl[0])}

\* the requests of the concurrent runs: no data stage
TaskRequests == {r \in Requests : r[2] = 0}

\* the engine shared by the supervisor and the class-driver tasks
NextTasks ==
    \/ \E t \in Tasks, h \in BagToSet(handles), r \in TaskRequests :
          CallControlTransfer(t, h, r[1], r[2])
    \/ \E h \in BagToSet(handles), d \in {"In", "Out"} : NewInterruptChannel(h, d)
    \/ \E t \in Tasks : CallInterruptTransfer(t)
    \/ \E t \in Tasks, d \in DirectDevInfos(info) : CallDevAttach(t, d)
    \/ \E t \in Tasks : RootDetach(t)
    \/ \E t \in Tasks, pi \in HubDetachPorts(info) : DevDetach(t, pi)
    \/ \E t \in Tasks : LockTransfer(t)
    \/ \E t \in Tasks : LockGetDeviceDescriptor(t)
    \/ \E t \in Tasks : LockAssignDeviceAddress(t)
    \/ \E t \in Tasks : PipeSetup(t)
    \/ \E t \in Tasks : PipeDataIn(t)
    \/ \E t \in Tasks : PipeDataOut(t)

SpecTasks == Init /\ [][NextTasks]_vars

(***************************************************************************)
(* The host task (lib.rs, impl Host): one action per pass of the loop of   *)
(* run_until_suspend, run_enumerate split at its two transfers.            *)
(***************************************************************************)
\* Option<u8>: the first zero bit of the scanned bytes
first_free_address(alloc) ==
    LET free == AllocAddresses \ alloc IN
    IF free = {} THEN None ELSE Some(FirstOf(free))

\* handle_bus_event: the HostState a bus event leads to
handle_bus_event(event) ==
    CASE event = "DeviceAttach" -> "DeviceEnumerate"
      [] event = "DeviceDetach" -> "Suspended"
      [] event = "Suspend" -> "Suspended"
      [] event = "Resume" -> "Disconnected"

\* the control transfers of register_hub, in order: the hub descriptor, the head
\* of the configuration descriptor, Set_Configuration, the whole configuration
\* descriptor
HubTransfers == 1 .. 4

\* the transfers of register_hub whose result is unwrapped
UnwrappedTransfers == {2, 4}

\* register_hub for the transfer results r: the first failed transfer returns its
\* error with `?`, or panics where the result is unwrapped
register_hub(r) ==
    LET failed == {i \in HubTransfers : r[i] = "Err"} IN
    IF failed = {} THEN "Ok"
    ELSE IF FirstOf(failed) \in UnwrappedTransfers THEN "panic" ELSE "Err"

HostRunning == host.run = "running"

HostFrame == UNCHANGED <<addrVars, pipeVars, sup, poll, disp, auxVars>>

\* state the host task is left in by a pass that ends in state st
HostPass(st, step) ==
    [host EXCEPT !.state = st, !.pc = "-", !.step = step]

\* HostState::Initializing: the message of the client is received; anything but
\* ClientReady panics
RunInitializing ==
    /\ HostRunning
    /\ host.state = "Initializing"
    /\ client.client2host # None
    /\ host' = IF client.client2host = Some("ClientReady")
               THEN HostPass("Disconnected", NoStep)
               ELSE [host EXCEPT !.run = "panicked", !.state = "Disconnected",
                                 !.step = NoStep]
    /\ client' = [client EXCEPT !.client2host = None]
    /\ HostFrame

\* run_disconnected: the bus event decides the next state
RunDisconnected(event) ==
    /\ HostRunning
    /\ host.state = "Disconnected"
    /\ host' = HostPass(handle_bus_event(event), [NoStep EXCEPT !.ev = event])
    /\ HostFrame
    /\ UNCHANGED client

\* run_enumerate, dev_attach up to the allocation: get_device_descriptor returns r;
\* on Ok the address is allocated (the assertion fails when none is left)
EnumerateGetDeviceDescriptor(r) ==
    /\ HostRunning
    /\ host.state = "DeviceEnumerate"
    /\ host.pc = "-"
    /\ host' =
         IF r = "Err"
         THEN HostPass("Disconnected", [NoStep EXCEPT !.err = "get_device_descriptor"])
         ELSE LET a == first_free_address(host.address_alloc) IN
              IF a = None
              THEN [host EXCEPT !.run = "panicked", !.state = "Disconnected",
                                !.step = NoStep]
              ELSE [host EXCEPT !.address_alloc = @ \cup {a[1]}, !.addr = a[1],
                                !.pc = "assign_device_address", !.step = NoStep]
    /\ HostFrame
    /\ UNCHANGED client

\* run_enumerate, the rest of dev_attach: assign_device_address returns r; the
\* descriptor fetched names the device class
EnumerateAssignDeviceAddress(r, class) ==
    /\ HostRunning
    /\ host.state = "DeviceEnumerate"
    /\ host.pc = "assign_device_address"
    /\ host' =
         IF r = "Err"
         THEN HostPass("Disconnected", [NoStep EXCEPT !.err = "assign_device_address"])
         ELSE [HostPass("DeviceAttached", NoStep) EXCEPT !.class = class]
    /\ HostFrame
    /\ UNCHANGED client

\* run_enumerate, the bus side of poll_select: DeviceDetach ends the enumeration,
\* any other event is ignored
EnumerateBusEvent(event) ==
    /\ HostRunning
    /\ host.state = "DeviceEnumerate"
    /\ host' =
         IF event = "DeviceDetach"
         THEN HostPass("Disconnected", [NoStep EXCEPT !.ev = event])
         ELSE [host EXCEPT !.step = [NoStep EXCEPT !.ev = event]]
    /\ HostFrame
    /\ UNCHANGED client

\* HostState::DeviceAttached: a hub is registered and the result unwrapped, any
\* other device is sent as NewDevice to the first client whose accept_device takes
\* its descriptor (accepted: there is one)
RunDeviceAttached(r, accepted) ==
    /\ HostRunning
    /\ host.state = "DeviceAttached"
    /\ LET sends == host.class # "hub" /\ accepted IN
       \* host2client.send(NewDevice) returns when the channel has room
       /\ sends => client.host2client = None
       /\ client' = IF sends THEN [client EXCEPT !.host2client = Some("NewDevice")]
                    ELSE client
    /\ host' =
         IF host.class = "hub"
         THEN IF register_hub(r) = "Ok"
              THEN HostPass("Idle", NoStep)
              ELSE [host EXCEPT !.run = "panicked", !.state = "Disconnected",
                                !.step = [NoStep EXCEPT !.err = "register_hub"]]
         ELSE HostPass("Idle", [NoStep EXCEPT !.msg = IF accepted THEN "NewDevice"
                                                        ELSE "none"])
    /\ HostFrame

\* run_idle, a client's request: ClientReady is logged; for ControlTransfer the
\* transfer is run and its result sent back, which returns when host2client has
\* room (the client that made the request is the one to make it)
RunIdleRequest ==
    /\ HostRunning
    /\ host.state = "Idle"
    /\ client.client2host # None
    /\ IF client.client2host = Some("ControlTransfer")
       THEN /\ client.host2client = None
            /\ host' = HostPass("Idle", [NoStep EXCEPT !.msg = "ControlTransferResponse"])
            /\ client' = [client EXCEPT !.client2host = None,
                                        !.host2client = Some("ControlTransferResponse")]
       ELSE /\ host' = HostPass("Idle", NoStep)
            /\ client' = [client EXCEPT !.client2host = None]
    /\ HostFrame

\* run_idle, a bus event
RunIdleBusEvent(event) ==
    /\ HostRunning
    /\ host.state = "Idle"
    /\ host' = HostPass(handle_bus_event(event), [NoStep EXCEPT !.ev = event])
    /\ HostFrame
    /\ UNCHANGED client

\* HostState::Suspended: the state is set to Disconnected and the loop left
RunSuspended ==
    /\ HostRunning
    /\ host.state = "Suspended"
    /\ host' = [HostPass("Disconnected", NoStep) EXCEPT !.run = "returned"]
    /\ HostFrame
    /\ UNCHANGED client

\* the application calls run_until_suspend again
RunAgain ==
    /\ host.run = "returned"
    /\ host' = [host EXCEPT !.run = "running", !.step = NoStep]
    /\ HostFrame
    /\ UNCHANGED client

\* HostHandle::register: the client sends ClientReady
Register ==
    /\ client.pc = "start"
    /\ client.client2host = None
    /\ client' = [client EXCEPT !.client2host = Some("ClientReady"), !.pc = "idle"]
    /\ UNCHANGED host
    /\ HostFrame

\* HostHandle::recv: the client takes the message of host2client; a NewDevice
\* gives it a DeviceHandle
Recv ==
    /\ client.pc = "idle"
    /\ client.host2client # None
    /\ client' = [client EXCEPT !.host2client = None, !.got = client.host2client[1],
                                !.handle = @ \/ client.host2client = Some("NewDevice")]
    /\ UNCHANGED host
    /\ HostFrame

\* HostHandle::control_transfer up to its receive: the request is sent
ClientControlTransfer ==
    /\ client.pc = "idle"
    /\ client.handle
    /\ client.client2host = None
    /\ client' = [client EXCEPT !.client2host = Some("ControlTransfer"),
                                !.pc = "control_transfer", !.got = "none"]
    /\ UNCHANGED host
    /\ HostFrame

\* HostHandle::control_transfer from its receive on: the message of host2client is
\* taken; anything but ControlTransferResponse panics
ClientResponse ==
    /\ client.pc = "control_transfer"
    /\ client.host2client # None
    /\ client' = [client EXCEPT !.host2client = None, !.got = client.host2client[1],
                                !.pc = IF client.host2client = Some("ControlTransferResponse")
                                       THEN "idle" ELSE "panicked"]
    /\ UNCHANGED host
    /\ HostFrame

HostNext ==
    \/ Register
    \/ Recv
    \/ ClientControlTransfer
    \/ ClientResponse
    \/ RunInitializing
    \/ \E e \in Events : RunDisconnected(e)
    \/ \E r \in {"Ok", "Err"} : EnumerateGetDeviceDescriptor(r)
    \/ \E r \in {"Ok", "Err"}, c \in {"hub", "other"} : EnumerateAssignDeviceAddress(r, c)
    \/ \E e \in Events : EnumerateBusEvent(e)
    \/ \E r \in [HubTransfers -> {"Ok", "Err"}], a \in BOOLEAN : RunDeviceAttached(r, a)
    \/ RunIdleRequest
    \/ \E e \in Events : RunIdleBusEvent(e)
    \/ RunSuspended
    \/ RunAgain

SpecHost == Init /\ [][HostNext]_vars

(***************************************************************************)
(* The hub driver (driver/hub.rs) and the supervisor's handling of its     *)
(* events; a transfer of the hub driver that fails ends the poll with no   *)
(* event and is left out.                                                   *)
(***************************************************************************)
\* UsbSpeed::is_classic
is_classic(speed) == speed \in {"LowSpeed", "FullSpeed"}

\* (status, change) as Get_Port_Status returns them, the bits the driver reads; the
\* ports report full-speed and high-speed devices (a low-speed device is routed as
\* a full-speed one is)
HubPortStatus == [connected : BOOLEAN, reset : BOOLEAN,
                  low_speed : {FALSE}, high_speed : BOOLEAN]

HubPortStatusChange == [connection : BOOLEAN, reset : BOOLEAN]

\* the reports polled: a port whose reset bit or speed bit is set holds a device,
\* and a reset completes on a port that holds one
PortReports ==
    {r \in HubPortStatus \X HubPortStatusChange :
        (r[1].reset \/ r[1].high_speed \/ r[2].reset) => r[1].connected}

\* a decoding that knows no speed bit
speed_Mutant(status) == "FullSpeed"

\* HubPortStatus::speed
speed(status) ==
    IF status.high_speed THEN "HighSpeed"
    ELSE IF status.low_speed THEN "LowSpeed"
    ELSE "FullSpeed"

\* what DevInfo::new(addr, port, speed) can compute as the transaction translator
\* from its three arguments: none, or the hub itself for a classic-speed device
Builds == {"no_tt", "hub_is_tt"}

\* a constructor that drops the port's number
DevInfo_new_on_port_Mutant(build, addr, port, spd) == DevInfo_new(addr, 0, None, spd)

\* DevInfo::new(addr, port, speed), the constructor the hub driver calls
DevInfo_new_on_port(build, addr, port, spd) ==
    DevInfo_new(addr, port,
                IF build = "hub_is_tt" /\ is_classic(spd) THEN Some(<<addr, port>>) ELSE None,
                spd)

\* a hub that resets a port whatever the supervisor is doing
may_reset_Mutant(enumeration_in_progress) == TRUE

\* on_status_change line 265: if !enumeration_in_progress
may_reset(enumeration_in_progress) == ~enumeration_in_progress

\* on_status_change for the flagged port: the event returned
on_status_change(build, handle, port, status, change, enumeration_in_progress) ==
    IF change.connection /\ status.connected /\ may_reset(enumeration_in_progress)
    THEN [NoHubEvent EXCEPT !.kind = "DeviceReset"]
    ELSE IF change.connection /\ ~status.connected
    THEN [kind |-> "DeviceDetach",
          dev_info |-> DevInfo_new_on_port(build, handle.address, port, "LowSpeed"),
          hub |-> handle]
    ELSE IF change.reset /\ ~status.reset
    THEN [kind |-> "DeviceAttach",
          dev_info |-> DevInfo_new_on_port(build, handle.address, port, speed(status)),
          hub |-> handle]
    ELSE NoHubEvent

\* the hubs kept after a detach: those whose address the mask does not name
prune(hubs, mask) == SelectSeq(hubs, LAMBDA h : h.address \notin mask)

\* the speed the root port reports
RootSpeeds == {"HighSpeed"}

\* the handle of a device that is no hub goes to its class driver, outside of this
\* part of the model: handles and last stay as they are
HubFrame == UNCHANGED <<handles, last, pipeVars, host, poll, disp, client, auxVars>>

\* what a step of the supervisor leaves in sup besides hubs: the event handled, the
\* mask emitted with DeviceDetach, and the addresses of the hubs dropped
SupStep(hubs, enumeration_in_progress, event, emitted) ==
    [sup EXCEPT !.hubs = hubs, !.enumeration_in_progress = enumeration_in_progress,
                !.event = event, !.emitted = emitted,
                !.dropped = {sup.hubs[i].address : i \in 1 .. Len(sup.hubs)}
                            \ {hubs[i].address : i \in 1 .. Len(hubs)}]

\* the root device is enumerated (dev_attach succeeds); a hub becomes the first of
\* the hubs
EnumerateRoot(spd, class) ==
    /\ LiveSlots(info) = {}
    /\ LET r == alloc_device_address(info, 8, DevInfo_root_device(spd)) IN
       /\ info' = r.info
       /\ sup' = SupStep(IF class = "hub" THEN <<r.handle>> ELSE <<>>, FALSE,
                         NoHubEvent, None)
    /\ HubFrame

\* the sweep polls hub i, whose status-change endpoint flags port, and the
\* supervisor handles the event
HubPoll(i, port, status, change) ==
    LET hub == sup.hubs[i]
        ev == on_status_change(sup.build, hub, port, status, change,
                               sup.enumeration_in_progress) IN
    /\ CASE ev.kind = "DeviceReset" ->
              /\ sup' = SupStep(sup.hubs, TRUE, ev, None)
              /\ UNCHANGED info
         [] ev.kind = "DeviceAttach" ->
              /\ PortFree(info, ev.dev_info.port)
              /\ EmptySlots(info) # {}
              /\ \E class \in {"hub", "other"} :
                 LET r == alloc_device_address(info, 8, ev.dev_info) IN
                 /\ info' = r.info
                 /\ sup' = SupStep(IF class = "hub" THEN Append(sup.hubs, r.handle)
                                   ELSE sup.hubs,
                                   FALSE, ev, None)
         [] ev.kind = "DeviceDetach" ->
              /\ LET r == free_subtree(info, ev.dev_info.port) IN
                 /\ info' = r.info
                 /\ sup' = SupStep(prune(sup.hubs, r.mask), sup.enumeration_in_progress,
                                   ev, Some(r.mask))
         [] OTHER ->
              /\ sup' = SupStep(sup.hubs, sup.enumeration_in_progress, ev, None)
              /\ UNCHANGED info
    /\ HubFrame

\* the bus reports DeviceDetach: root_detach, no hub is left
BusDetach ==
    /\ LiveSlots(info) # {}
    /\ LET r == free_all_addresses(info) IN
       /\ info' = r.info
       /\ sup' = SupStep(<<>>, FALSE, NoHubEvent, Some(r.mask))
    /\ HubFrame

HubNext ==
    \/ \E spd \in RootSpeeds, c \in {"hub", "other"} : EnumerateRoot(spd, c)
    \/ \E i \in 1 .. Len(sup.hubs), port \in 1 .. MaxPort, r \in PortReports :
          HubPoll(i, port, r[1], r[2])
    \/ BusDetach

\* the reports of full-speed devices that come and go with no reset pending: a
\* completed reset on a connected port, a disconnection
SweepReports ==
    {r \in PortReports :
        /\ ~r[1].high_speed /\ ~r[1].reset
        /\ r[2].connection # r[2].reset
        /\ r[2].connection <=> ~r[1].connected}

\* the tree of full-speed devices below a high-speed root hub, as attaches and
\* detaches shape it
SweepNext ==
    \/ \E spd \in RootSpeeds, c \in {"hub", "other"} : EnumerateRoot(spd, c)
    \/ \E i \in 1 .. Len(sup.hubs), port \in 1 .. MaxPort, r \in SweepReports :
          HubPoll(i, port, r[1], r[2])
    \/ BusDetach

SpecSweep == Init /\ [][SweepNext]_vars

\* the build fixes what DevInfo::new(addr, port, speed) computes
InitHub ==
    /\ info = DeviceAddressManager_new
    /\ handles = EmptyBag
    /\ last = NoCall
    /\ lock = 0
    /\ task = [t \in Tasks |-> TaskIdle]
    /\ pipe_addr = 0
    /\ chan = NoChannel
    /\ hw = NoHw
    /\ ret = NoRet
    /\ host = Host_new
    /\ sup \in {[NoHubs EXCEPT !.build = b] : b \in Builds}
    /\ poll = NoPolls
    /\ disp = USBDeviceDispatcher_new
    /\ client = HostHandle_new
    /\ unpin = NoPoller
    /\ iter = DescriptorIterator_new(<<>>)
    /\ bus = BusWrap_new

SpecHub == InitHub /\ [][HubNext]_vars

(***************************************************************************)
(* Hub::poll request by request (driver/hub.rs), the ports of the hubs,    *)
(* and the supervisor's handling of the events of the sweep                *)
(***************************************************************************)
\* the feature requests of on_status_change
ClearConnection(port) == [op |-> "Clear_Feature", feature |-> "C_PORT_CONNECTION", port |-> port]

\* a hub driver that clears the connection change a second time instead
SetReset_Mutant(port) == [op |-> "Clear_Feature", feature |-> "C_PORT_CONNECTION", port |-> port]

SetReset(port) == [op |-> "Set_Feature", feature |-> "PORT_RESET", port |-> port]

ClearReset(port) == [op |-> "Clear_Feature", feature |-> "C_PORT_RESET", port |-> port]

\* a hub driver that takes the connection change at once, whatever the supervisor
\* is doing
port_requests_Mutant(port, status, change, enumeration_in_progress) ==
    IF change.connection
    THEN IF status.connected THEN <<ClearConnection(port), SetReset(port)>>
         ELSE <<ClearConnection(port)>>
    ELSE IF change.reset THEN <<ClearReset(port)>>
    ELSE <<>>

\* the feature requests on_status_change makes for a port whose status it read, in
\* their order, when none of them fails
port_requests(port, status, change, enumeration_in_progress) ==
    IF change.connection /\ status.connected /\ may_reset(enumeration_in_progress)
    THEN <<ClearConnection(port), SetReset(port)>>
    ELSE IF change.connection /\ ~status.connected
    THEN <<ClearConnection(port)>>
    ELSE IF change.reset
    THEN <<ClearReset(port)>>
    ELSE <<>>

\* the loop of on_status_change over the flagged ports todo, lowest first.  report
\* is what Get_Port_Status returns for each port; fail names the transfer that
\* fails: request k of fail.port, k = 0 for its Get_Port_Status.  A failed
\* Get_Port_Status skips the port; a failed Clear_Feature(C_PORT_CONNECTION) ends the
\* poll with the error (?), the other two requests are unwrapped and panic.
RECURSIVE status_changes(_, _, _, _, _, _, _)
status_changes(build, handle, todo, report, enumeration_in_progress, fail, acc) ==
    IF todo = {} THEN acc
    ELSE
      LET port == FirstOf(todo)
          rest == todo \ {port}
      IN
      IF fail.port = port /\ fail.k = 0
      THEN status_changes(build, handle, rest, report, enumeration_in_progress, fail,
                          [acc EXCEPT !.asked = @ \cup {port}])
      ELSE
        LET status == report[port][1]
            change == report[port][2]
            want == port_requests(port, status, change, enumeration_in_progress)
            k == IF fail.port = port /\ fail.k <= Len(want) THEN fail.k ELSE 0
            acc1 == [acc EXCEPT !.asked = @ \cup {port}, !.read = @ \cup {port},
                                !.reqs = @ \o (IF k > 0 THEN SubSeq(want, 1, k) ELSE want),
                                !.done = @ \o (IF k > 0 THEN SubSeq(want, 1, k - 1) ELSE want)]
            event == on_status_change(build, handle, port, status, change,
                                      enumeration_in_progress)
        IN
        IF k > 0
        THEN [acc1 EXCEPT !.res = IF want[k].feature = "C_PORT_CONNECTION" THEN "Err"
                                  ELSE "panic"]
        ELSE IF event.kind # "None" THEN [acc1 EXCEPT !.event = event]
        ELSE status_changes(build, handle, rest, report, enumeration_in_progress, fail, acc1)

\* what the interrupt transfer of Hub::poll returns: a bitmap, NAK, another error,
\* or no byte at all
PollTransfers == {"Ok", "NAK", "Err", "Empty"}

\* Hub::poll: the ports asked for their status and those that answered, the feature
\* requests issued and those that succeeded, the event and the result
Hub_poll(build, handle, irq, flagged, report, enumeration_in_progress, fail) ==
    CASE irq = "NAK" -> PollNothing
      [] irq = "Err" -> [PollNothing EXCEPT !.res = "Err"]
      [] irq = "Empty" -> [PollNothing EXCEPT !.res = "panic"]
      [] OTHER -> status_changes(build, handle, flagged, report, enumeration_in_progress,
                                 fail, PollNothing)

\* the port after a feature request that succeeded
feature_done(p, req) ==
    CASE req.feature = "C_PORT_CONNECTION" -> [p EXCEPT !.c_connection = FALSE]
      [] req.feature = "PORT_RESET" -> [p EXCEPT !.reset = TRUE]
      [] req.feature = "C_PORT_RESET" -> [p EXCEPT !.c_reset = FALSE]

RECURSIVE features_done(_, _, _)
features_done(ports, addr, done) ==
    IF done = <<>> THEN ports
    ELSE features_done([ports EXCEPT ![<<addr, Head(done).port>>] = feature_done(@, Head(done))],
                       addr, Tail(done))

\* the status-change bitmap of the hub at addr: the ports with a change bit set
flagged_ports(ports, addr) ==
    {p \in Ports : ports[<<addr, p>>].c_connection \/ ports[<<addr, p>>].c_reset}

\* what Get_Port_Status returns for a port: the speed bits are those of the device
\* on it, set by the reset that found it
port_report(p, low_speed, high_speed) ==
    LET found == p.connected /\ p.c_reset /\ ~p.reset IN
    <<[connected |-> p.connected, reset |-> p.reset,
       low_speed |-> found /\ low_speed, high_speed |-> found /\ high_speed],
      [connection |-> p.c_connection, reset |-> p.c_reset]>>

\* the transfer of a poll that fails, if one does
PollFails == {NoFail} \cup [port : Ports, k : 0 .. 2]

\* devices come and go on the ports of the hubs; a port takes a new device once
\* the detach of the one before was handled
Pluggable(addr, port) ==
    /\ \E i \in 1 .. Len(sup.hubs) : sup.hubs[i].address = addr
    /\ PortFree(info, PortInfo_new(ValidBit + addr, port))

\* the classes of the devices enumerated below the root hub
Classes(dev_info) == {"other"}

PollRunning == poll.run = "running"

PollFrame == UNCHANGED <<handles, last, pipeVars, host, disp, client, auxVars>>

\* a device is plugged into a port
Plug(addr, port) ==
    /\ PollRunning
    /\ Pluggable(addr, port)
    /\ ~poll.ports[<<addr, port>>].connected
    /\ poll' = [poll EXCEPT !.ports[<<addr, port>>].connected = TRUE,
                            !.ports[<<addr, port>>].c_connection = TRUE,
                            !.step = NoPollStep]
    /\ UNCHANGED <<info, sup>>
    /\ PollFrame

\* the device on a port is unplugged, before the reset of its port or after it
Unplug(addr, port) ==
    /\ PollRunning
    /\ poll.ports[<<addr, port>>].connected
    /\ ~poll.ports[<<addr, port>>].reset
    /\ ~poll.ports[<<addr, port>>].c_reset
    /\ poll' = [poll EXCEPT !.ports[<<addr, port>>].connected = FALSE,
                            !.ports[<<addr, port>>].c_connection = TRUE,
                            !.deferred = @ \ {<<addr, port>>},
                            !.step = NoPollStep]
    /\ UNCHANGED <<info, sup>>
    /\ PollFrame

\* the port reports that its reset changed: the reset is over (done), or the
\* port still signals it
ResetChange(addr, port, done) ==
    /\ PollRunning
    /\ poll.ports[<<addr, port>>].reset
    /\ ~poll.ports[<<addr, port>>].c_reset
    /\ poll' = [poll EXCEPT !.ports[<<addr, port>>].reset = ~done,
                            !.ports[<<addr, port>>].c_reset = TRUE,
                            !.step = NoPollStep]
    /\ UNCHANGED <<info, sup>>
    /\ PollFrame

\* the ports, the deferred ports and the origins left after the addresses of mask
\* were freed
ports_freed(ports, mask) ==
    [hp \in HubPorts |-> IF hp[1] \in mask THEN PortIdle ELSE ports[hp]]

\* the sweep polls hub i and the supervisor handles what the poll returns: the
\* enumeration flag is set by DeviceReset and cleared when dev_attach succeeded.
\* The endpoint answers NAK when no port has a change to report.
PollHub(i, irq, low_speed, high_speed, fail) ==
    LET hub == sup.hubs[i]
        addr == hub.address
        eip == sup.enumeration_in_progress
        flagged == flagged_ports(poll.ports, addr)
        report == [p \in Ports |-> port_report(poll.ports[<<addr, p>>], low_speed, high_speed)]
        out == Hub_poll(sup.build, hub, irq, flagged, report, eip, fail)
        ports1 == features_done(poll.ports, addr, out.done)
        put_off == {<<addr, p>> : p \in {q \in out.read :
                       eip /\ report[q][2].connection /\ report[q][1].connected}}
        deferred1 == {hp \in poll.deferred \cup put_off : ports1[hp].c_connection}
        step == [hub |-> addr, eip |-> eip, irq |-> irq,
                 report |-> [p \in out.read |-> report[p]], out |-> out, attach |-> "-"]
        ev == out.event
        at == IF out.reqs = <<>> THEN <<addr, 0>> ELSE <<addr, out.reqs[Len(out.reqs)].port>>
    IN
    /\ PollRunning
    /\ irq = "NAK" <=> flagged = {}
    /\ (low_speed \/ high_speed) =>
          \E p \in out.read : report[p][1].low_speed \/ report[p][1].high_speed
    /\ fail # NoFail =>
          /\ fail.port \in out.asked
          /\ IF fail.k = 0 THEN fail.port \notin out.read
             ELSE out.res # "Ok" /\ Len(out.reqs) = Len(out.done) + 1
                  /\ out.reqs[Len(out.reqs)].port = fail.port
                  /\ Len(SelectSeq(out.reqs, LAMBDA r : r.port = fail.port)) = fail.k
    /\ CASE out.res = "panic" ->
              /\ poll' = [poll EXCEPT !.ports = ports1, !.deferred = deferred1,
                                      !.run = "panicked", !.step = step]
              /\ UNCHANGED <<info, sup>>
         [] out.res = "Ok" /\ ev.kind = "DeviceReset" ->
              /\ poll' = [poll EXCEPT !.ports = ports1, !.deferred = deferred1,
                                      !.resetting = Some(at), !.step = step]
              /\ sup' = SupStep(sup.hubs, TRUE, ev, None)
              /\ UNCHANGED info
         [] out.res = "Ok" /\ ev.kind = "DeviceAttach" ->
              \/ /\ poll' = [poll EXCEPT !.ports = ports1, !.deferred = deferred1,
                                      !.resetting = IF @ = Some(at) THEN None ELSE @,
                                      !.step = [step EXCEPT !.attach = "fail"]]
                 /\ sup' = SupStep(sup.hubs, eip, ev, None)
                 /\ UNCHANGED info
              \/ \E class \in Classes(ev.dev_info) :
                    /\ EmptySlots(info) # {}
                    /\ poll.ports[at].connected
                    /\ LET r == alloc_device_address(info, 8, ev.dev_info) IN
                       /\ info' = r.info
                       /\ sup' = SupStep(IF class = "hub" THEN Append(sup.hubs, r.handle)
                                         ELSE sup.hubs,
                                         FALSE, ev, None)
                       /\ poll' = [poll EXCEPT
                                     !.ports = ports1, !.deferred = deferred1,
                                     !.resetting = IF @ = Some(at) THEN None ELSE @,
                                     !.origin[r.handle.address - 1] = Some(at),
                                     !.step = [step EXCEPT !.attach = class]]
         [] out.res = "Ok" /\ ev.kind = "DeviceDetach" ->
              /\ LET r == free_subtree(info, ev.dev_info.port) IN
                 /\ info' = r.info
                 /\ sup' = SupStep(prune(sup.hubs, r.mask), eip, ev, Some(r.mask))
                 /\ poll' = [poll EXCEPT
                               !.ports = ports_freed(ports1, r.mask),
                               !.deferred = {hp \in deferred1 : hp[1] \notin r.mask},
                               !.origin = [j \in Indices |->
                                             IF (j + 1) \in r.mask THEN None ELSE @[j]],
                               !.step = step]
         [] OTHER ->
              /\ poll' = [poll EXCEPT !.ports = ports1, !.deferred = deferred1,
                                      !.step = step]
              /\ sup' = SupStep(sup.hubs, eip, ev, None)
              /\ UNCHANGED info
    /\ PollFrame

\* the root device, a high-speed hub, is enumerated
EnumerateRootHub ==
    /\ PollRunning
    /\ \E spd \in RootSpeeds : EnumerateRoot(spd, "hub")

PollNext ==
    \/ EnumerateRootHub
    \/ \E hp \in HubPorts : Plug(hp[1], hp[2])
    \/ \E hp \in HubPorts : Unplug(hp[1], hp[2])
    \/ \E hp \in HubPorts, done \in BOOLEAN : ResetChange(hp[1], hp[2], done)
    \/ \E i \in 1 .. Len(sup.hubs), irq \in PollTransfers, ls \in BOOLEAN, hs \in BOOLEAN,
          fail \in PollFails :
          PollHub(i, irq, ls, hs, fail)

SpecPoll == Init /\ [][PollNext]_vars

(***************************************************************************)
(* The dispatcher (driver/mod.rs), its poller (futures.rs) and the run()   *)
(* of the class drivers (driver/kbd.rs, driver/dfu.rs)                     *)
(***************************************************************************)
\* the class drivers a dispatcher is built for
Drivers == {"HidKbd", "UsbDfu"}

\* hdd.run(pipe), not yet polled
run_future(HDD, device) ==
    [state |-> "Occupied", device |-> device.address,
     pc |-> IF HDD = "UsbDfu" THEN "get_state" ELSE "interrupt_transfer", gone |-> FALSE]

\* an insert that takes the first slot when none is empty
insert_Mutant(slots, future) ==
    LET empty == {i \in Indices : slots[i].state = "Empty"} IN
    [slots |-> [slots EXCEPT ![IF empty = {} THEN 0 ELSE FirstOf(empty)] = future],
     res |-> "Ok"]

\* StaticUnpinPoller::insert: the future goes to the first Empty slot
insert(slots, future) ==
    LET empty == {i \in Indices : slots[i].state = "Empty"} IN
    IF empty = {} THEN [slots |-> slots, res |-> "IndexOutOfBounds"]
    ELSE [slots |-> [slots EXCEPT ![FirstOf(empty)] = future], res |-> "Ok"]

\* StaticUnpinPoller::len
poller_len(slots) == Cardinality({i \in Indices : slots[i].state = "Occupied"})

\* what a transfer of the task in slot returns: only an error other than NAK once
\* its device is gone and nothing else has its address
TransferResults(tbl, slot) ==
    IF slot.gone /\ is_empty(tbl[slot.device - 1]) THEN {"Err"} ELSE {"Ok", "NAK", "Err"}

\* dfu.rs DFUOperation, what the application sends to UsbDfu::run
DFUOperations == {"StartDownload", "Bytes", "Manifest", "Detach"}

\* the task in slot runs to its next await: what is left in the slot (Empty when
\* run returned), whether a transfer returned an error to it, and whether it
\* panicked.  HidKbd::run returns the first error that is not NAK; UsbDfu::run
\* returns the error of its first transfer, and afterwards only on Detach: the
\* errors of a download are logged, and a download whose setup succeeds is todo!()
task_step(slot, result, op) ==
    CASE slot.pc = "interrupt_transfer" ->
            [slot |-> IF result = "Err" THEN SlotEmpty ELSE slot,
             err |-> result = "Err", res |-> "-"]
      [] slot.pc = "get_state" ->
            [slot |-> IF result = "Ok" THEN [slot EXCEPT !.pc = "receive"] ELSE SlotEmpty,
             err |-> result # "Ok", res |-> "-"]
      [] slot.pc = "receive" ->
            CASE op = "Detach" -> [slot |-> SlotEmpty, err |-> FALSE, res |-> "-"]
              [] op = "Bytes" ->
                   [slot |-> slot, err |-> result # "Ok",
                    res |-> IF result = "Ok" THEN "panic" ELSE "-"]
              [] OTHER -> [slot |-> slot, err |-> FALSE, res |-> "-"]

DispRunning == disp.run = "running"

DispFrame == UNCHANGED <<handles, last, pipeVars, host, poll, client, auxVars>>

\* the port of the root hub a device is on
OnRootHub(port) == DevInfo_new(1, port, None, "FullSpeed")

\* the supervisor enumerated a device on a port of the root hub and hands it to the
\* dispatcher: insert_new_device
InsertNewDevice(port) ==
    /\ DispRunning
    /\ disp.new_dev = None
    /\ ~is_empty(info[0])
    /\ PortFree(info, OnRootHub(port).port)
    /\ EmptySlots(info) # {}
    /\ LET r == alloc_device_address(info, 8, OnRootHub(port)) IN
       /\ info' = r.info
       /\ disp' = [disp EXCEPT !.new_dev = Some(r.handle),
                               !.step = [NoDispStep EXCEPT !.kind = "send",
                                                           !.device = r.handle.address]]
    /\ UNCHANGED sup
    /\ DispFrame

\* run_inner receives the device: try_attach, and on success insert
ReceiveNewDevice(attached) ==
    /\ DispRunning
    /\ disp.new_dev # None
    /\ LET device == disp.new_dev[1]
           r == IF attached THEN insert(disp.poller, run_future(disp.HDD, device))
                ELSE [slots |-> disp.poller, res |-> "AttachFailed"] IN
       disp' = [disp EXCEPT !.new_dev = None, !.poller = r.slots,
                            !.step = [NoDispStep EXCEPT !.kind = "receive",
                                                        !.device = device.address,
                                                        !.res = r.res]]
    /\ UNCHANGED <<info, sup>>
    /\ DispFrame

\* poll_next polls the task of slot i, which runs to its next await; when run
\* returned the slot is dropped and run_inner logs the result
PollTask(i, result, op) ==
    /\ DispRunning
    /\ disp.poller[i].state = "Occupied"
    /\ result \in TransferResults(info, disp.poller[i])
    /\ IF disp.poller[i].pc = "receive"
       THEN (op # "Bytes" => result = "Err")
       ELSE op = "Bytes"
    /\ LET r == task_step(disp.poller[i], result, op) IN
       disp' = [disp EXCEPT !.poller[i] = r.slot,
                            !.run = IF r.res = "panic" THEN "panicked" ELSE @,
                            !.step = [NoDispStep EXCEPT !.kind = "task", !.slot = Some(i),
                                                        !.device = disp.poller[i].device,
                                                        !.err = r.err, !.res = r.res]]
    /\ UNCHANGED <<info, sup>>
    /\ DispFrame

\* the device on a port of the root hub is detached: the supervisor frees its
\* address; the tasks of the dispatcher are not told
DetachDevice(port) ==
    /\ DispRunning
    /\ ~PortFree(info, OnRootHub(port).port)
    /\ LET r == free_subtree(info, OnRootHub(port).port) IN
       /\ info' = r.info
       /\ disp' = [disp EXCEPT
                     !.poller = [i \in Indices |->
                                   IF @[i].state = "Occupied" /\ @[i].device \in r.mask
                                   THEN [@[i] EXCEPT !.gone = TRUE] ELSE @[i]],
                     !.step = [NoDispStep EXCEPT !.kind = "detach"]]
    /\ UNCHANGED sup
    /\ DispFrame

\* the root device, a hub, is enumerated
DispEnumerateRoot ==
    /\ DispRunning
    /\ \E spd \in RootSpeeds : EnumerateRoot(spd, "hub")

\* the devices handed to the dispatcher come and go on one port of the root hub
DispPorts == {1}

DispNext ==
    \/ DispEnumerateRoot
    \/ \E port \in DispPorts : InsertNewDevice(port)
    \/ \E attached \in BOOLEAN : ReceiveNewDevice(attached)
    \/ \E i \in Indices, result \in {"Ok", "NAK", "Err"}, op \in DFUOperations :
          PollTask(i, result, op)
    \/ \E port \in DispPorts : DetachDevice(port)

\* the dispatcher is built for one class driver
InitDisp ==
    /\ info = DeviceAddressManager_new
    /\ handles = EmptyBag
    /\ last = NoCall
    /\ lock = 0
    /\ task = [t \in Tasks |-> TaskIdle]
    /\ pipe_addr = 0
    /\ chan = NoChannel
    /\ hw = NoHw
    /\ ret = NoRet
    /\ host = Host_new
    /\ sup = NoHubs
    /\ poll = NoPolls
    /\ disp \in {[USBDeviceDispatcher_new EXCEPT !.HDD = d] : d \in Drivers}
    /\ client = HostHandle_new
    /\ unpin = NoPoller
    /\ iter = DescriptorIterator_new(<<>>)
    /\ bus = BusWrap_new

SpecDisp == InitDisp /\ [][DispNext]_vars

(***************************************************************************)
(* StaticUnpinPoller on its own (futures.rs): tasks are inserted, become   *)
(* ready, and are polled by poll_next                                      *)
(***************************************************************************)
\* the inserts made on the poller in a run
MaxInserts == 5

\* the n-th task inserted, not ready yet
TaskFuture(n) == [SlotEmpty EXCEPT !.state = "Occupied", !.device = n, !.pc = "pending"]

\* pinned_fut.poll(cx) of the task in slot: Poll::Ready or Poll::Pending
poll_future(slot) == IF slot.pc = "ready" THEN "Ready" ELSE "Pending"

\* a drop_future_at that leaves the slot Occupied
drop_future_at_Mutant(slots, index) == slots

\* drop_future_at: the future is dropped in place and the slot marked Empty
drop_future_at(slots, index) == [slots EXCEPT ![index] = SlotEmpty]

\* the loop of poll_next from slot index on
RECURSIVE poll_from(_, _, _, _, _)
poll_from(slots, index, polled, occupied_count, pending_found) ==
    IF index >= NR_DEVICES
    THEN [slots |-> slots, polled |-> polled, index |-> None, task |-> 0,
          res |-> IF occupied_count = 0 THEN "Ready(None)" ELSE "Pending"]
    ELSE IF slots[index].state = "Occupied"
         THEN IF poll_future(slots[index]) = "Ready"
              THEN [slots |-> drop_future_at(slots, index),
                    polled |-> Append(polled, index), index |-> Some(index),
                    task |-> slots[index].device, res |-> "Ready(Some)"]
              ELSE poll_from(slots, index + 1, Append(polled, index),
                             occupied_count + 1, TRUE)
         ELSE poll_from(slots, index + 1, polled, occupied_count, pending_found)

\* a poll_next that polls the first occupied slot only
poll_next_Mutant(slots) ==
    LET occupied == {i \in Indices : slots[i].state = "Occupied"} IN
    IF occupied = {}
    THEN [slots |-> slots, polled |-> <<>>, index |-> None, task |-> 0,
          res |-> "Ready(None)"]
    ELSE LET i == FirstOf(occupied) IN
         IF poll_future(slots[i]) = "Ready"
         THEN [slots |-> drop_future_at(slots, i), polled |-> <<i>>, index |-> Some(i),
               task |-> slots[i].device, res |-> "Ready(Some)"]
         ELSE [slots |-> slots, polled |-> <<i>>, index |-> None, task |-> 0,
               res |-> "Pending"]

\* StaticUnpinPoller::poll_next
poll_next(slots) == poll_from(slots, 0, <<>>, 0, FALSE)

\* StaticUnpinPoller::is_empty
poller_is_empty(slots) == \A i \in Indices : slots[i].state = "Empty"

UnpinFrame == UNCHANGED <<addrVars, pipeVars, host, sup, poll, disp, client, iter, bus>>

\* insert(future) of the next task
UnpinInsert ==
    /\ unpin.inserted < MaxInserts
    /\ LET r == insert(unpin.states, TaskFuture(unpin.inserted + 1)) IN
       unpin' = [unpin EXCEPT !.states = r.slots,
                              !.inserted = IF r.res = "Ok" THEN @ + 1 ELSE @,
                              !.step = [NoPollerStep EXCEPT !.op = "insert", !.res = r.res]]
    /\ UnpinFrame

\* the task in slot i gets what it waited for: its next poll returns Ready
Complete(i) ==
    /\ unpin.states[i].state = "Occupied"
    /\ unpin.states[i].pc = "pending"
    /\ unpin' = [unpin EXCEPT !.states[i].pc = "ready", !.step = NoPollerStep]
    /\ UnpinFrame

\* poll_next(cx)
UnpinPollNext ==
    /\ LET r == poll_next(unpin.states) IN
       unpin' = [unpin EXCEPT !.states = r.slots,
                              !.returned = IF r.index = None THEN @ ELSE @ \cup {r.task},
                              !.step = [op |-> "poll_next", polled |-> r.polled,
                                        res |-> r.res, index |-> r.index, task |-> r.task]]
    /\ UnpinFrame

UnpinNext ==
    \/ UnpinInsert
    \/ \E i \in Indices : Complete(i)
    \/ UnpinPollNext

SpecUnpin == Init /\ [][UnpinNext]_vars

(***************************************************************************)
(* DescriptorIterator and parse_descriptor (descriptor/mod.rs)             *)
(***************************************************************************)
\* the descriptors a buffer of the model is made of
MaxDescs == 2

\* size_of::<DescriptorHeader>()
HEADER_SIZE == 2

\* offset_of!(DeviceDescriptor, max_packet_size) + size_of::<u8>()
MAX_PACKET_SIZE_END == 8

\* size_of::<ConfigurationDescriptor>() and size_of::<InterfaceDescriptor>()
CONFIGURATION_DESCRIPTOR_SIZE == 9

INTERFACE_DESCRIPTOR_SIZE == 9

\* size_of::<EndpointDescriptor>()
ENDPOINT_DESCRIPTOR_SIZE == 7

\* DescriptorType::try_from: Device, Configuration, String, Interface, Endpoint
DescriptorTypes == 1 .. 5

\* parse_descriptor(buf): Ok((descriptor, length)), Err(e), or a panic (the slice
\* of an unknown descriptor longer than the buffer, a string descriptor)
parse_descriptor(buf) ==
    IF Len(buf) < HEADER_SIZE THEN [res |-> "Err", length |-> 0]
    ELSE
      LET length == buf[1]
          descriptor_type == buf[2] IN
      CASE descriptor_type \notin DescriptorTypes ->
             IF length > Len(buf) THEN [res |-> "panic", length |-> 0]
             ELSE [res |-> "Ok", length |-> length]
        [] descriptor_type = 1 ->
             IF length # DEVICE_DESCRIPTOR_SIZE THEN [res |-> "Err", length |-> 0]
             ELSE IF Len(buf) < MAX_PACKET_SIZE_END THEN [res |-> "Err", length |-> 0]
             ELSE IF Len(buf) < length THEN [res |-> "Err", length |-> 0]
             ELSE [res |-> "Ok", length |-> length]
        [] descriptor_type = 2 ->
             IF Len(buf) < CONFIGURATION_DESCRIPTOR_SIZE THEN [res |-> "Err", length |-> 0]
             ELSE [res |-> "Ok", length |-> length]
        [] descriptor_type = 3 -> [res |-> "panic", length |-> 0]
        [] descriptor_type = 4 ->
             IF Len(buf) < INTERFACE_DESCRIPTOR_SIZE THEN [res |-> "Err", length |-> 0]
             ELSE [res |-> "Ok", length |-> length]
        [] descriptor_type = 5 ->
             IF Len(buf) < ENDPOINT_DESCRIPTOR_SIZE THEN [res |-> "Err", length |-> 0]
             ELSE [res |-> "Ok", length |-> length]

\* DescriptorIterator::next: the iterator after the call, with the item yielded
next(it) ==
    IF it.offset >= Len(it.buf)
    THEN [it EXCEPT !.item = "None", !.before = it.offset]
    ELSE LET desc == parse_descriptor(SubSeq(it.buf, it.offset + 1, Len(it.buf))) IN
         CASE desc.res = "Ok" ->
                [it EXCEPT !.offset = @ + desc.length, !.item = "Ok", !.before = it.offset]
           [] desc.res = "Err" ->
                [it EXCEPT !.offset = Len(it.buf), !.item = "Err", !.before = it.offset]
           [] OTHER -> [it EXCEPT !.item = "panic", !.before = it.offset]

\* bLength and bDescriptorType of the descriptors of the buffers, and the bytes
\* that follow the two in a descriptor
DescLengths == {0, 7, 18}

DescTypes == {1, 3, 5, 33}

DescPads == {0, 5, 16}

\* the buffers of at most n descriptors, the last one possibly cut short
RECURSIVE Buffers(_)
Buffers(n) ==
    IF n = 0 THEN {<<>>, <<7>>}
    ELSE Buffers(n - 1) \cup
         {<<l, t>> \o [i \in 1 .. p |-> 0] \o b :
             l \in DescLengths, t \in DescTypes, p \in DescPads, b \in Buffers(n - 1)}

\* a caller iterates: it calls next() until it yields None
IterNext ==
    /\ iter.item \notin {"None", "panic"}
    /\ iter' = next(iter)
    /\ UNCHANGED <<addrVars, pipeVars, host, sup, poll, disp, client, unpin, bus>>

InitIter ==
    /\ info = DeviceAddressManager_new
    /\ handles = EmptyBag
    /\ last = NoCall
    /\ lock = 0
    /\ task = [t \in Tasks |-> TaskIdle]
    /\ pipe_addr = 0
    /\ chan = NoChannel
    /\ hw = NoHw
    /\ ret = NoRet
    /\ host = Host_new
    /\ sup = NoHubs
    /\ poll = NoPolls
    /\ disp = USBDeviceDispatcher_new
    /\ client = HostHandle_new
    /\ unpin = NoPoller
    /\ iter \in {DescriptorIterator_new(buf) : buf \in Buffers(MaxDescs)}
    /\ bus = BusWrap_new

SpecIter == InitIter /\ [][IterNext]_vars

(***************************************************************************)
(* BusWrap::poll (bus.rs)                                                  *)
(***************************************************************************)
\* the events one run of the model delivers to the caller of poll
MaxEvents == 3

needs_reset_Mutant(event) == FALSE

\* the match of BusWrap::poll: the arm of Event::DeviceAttach resets the bus
needs_reset(event) == event = "DeviceAttach"

BusFrame == UNCHANGED <<addrVars, pipeVars, host, sup, poll, disp, client, unpin, iter>>

\* poll is called and self.0.poll().await yields the event e of the bus: any
\* event but DeviceAttach is returned as it is
BusPoll(e) ==
    /\ bus.pc = "idle"
    /\ Len(bus.log) < MaxEvents
    /\ bus' = IF needs_reset(e)
              THEN [bus EXCEPT !.pc = "reset", !.raw = e, !.reset = FALSE]
              ELSE [bus EXCEPT !.raw = e, !.reset = FALSE, !.log = Append(@, e)]
    /\ BusFrame

\* self.0.reset().await completes
BusReset ==
    /\ bus.pc = "reset"
    /\ bus' = [bus EXCEPT !.pc = "timer", !.reset = TRUE, !.resets = @ + 1]
    /\ BusFrame

\* Timer::after_millis(500).await expires and poll returns Event::DeviceAttach
BusTimer ==
    /\ bus.pc = "timer"
    /\ bus' = [bus EXCEPT !.pc = "idle", !.log = Append(@, "DeviceAttach")]
    /\ BusFrame

BusNext ==
    \/ \E e \in Events : BusPoll(e)
    \/ BusReset
    \/ BusTimer

SpecBus == Init /\ [][BusNext]_vars

(***************************************************************************)
(* Claims about the address manager (checked under SpecAddr)               *)
(***************************************************************************)
\* the slots reached from the slots S by following parent links downwards
RECURSIVE Closure(_, _)
Closure(tbl, S) ==
    LET S2 == S \cup {j \in LiveSlots(tbl) :
                        parent_addr(tbl[j])[1] > 0 /\ (parent_addr(tbl[j])[1] - 1) \in S} IN
    IF S2 = S THEN S ELSE Closure(tbl, S2)

\* the node at slot idx and its transitive descendants in the forest tbl
SubtreeOf(tbl, idx) == Closure(tbl, {idx})

\* C1: free_subtree(N) of a live node N returns exactly the addresses of N and of
\* its transitive descendants, frees exactly those slots and leaves the others as
\* they were.
C1_FreeSubtreeExact ==
    (last.op = "free_subtree" /\ find_index(last.pre, last.arg) # None) =>
        LET sub == SubtreeOf(last.pre, find_index(last.pre, last.arg)[1]) IN
        /\ last.mask = {i + 1 : i \in sub}
        /\ info = [i \in Indices |-> IF i \in sub THEN PortInfo_invalid ELSE last.pre[i]]

\* C2: no two live handles share an address, and every live handle's address is
\* in 1..NR_DEVICES.
C2_UniqueLiveAddresses ==
    \A h \in BagToSet(handles) :
        /\ CopiesIn(h, handles) = 1
        /\ h.address \in 1 .. NR_DEVICES
        /\ \A g \in BagToSet(handles) : g.address = h.address => g = h

\* an allocation that reuses a freed address below a live one
C2_Witness ==
    /\ last.op = "alloc_device_address"
    /\ \E h \in BagToSet(handles) : \E a \in last.mask : h.address > a
    /\ \E i \in Indices : ~is_empty(last.pre[i]) /\ is_empty(last.pre[0])

(***************************************************************************)
(* Claims about the lock (checked under SpecTasks)                         *)
(***************************************************************************)
TransferOps == {"control_transfer", "interrupt_transfer"}

\* C3: a hardware call of a control_transfer or interrupt_transfer is made by the
\* task that holds the lock, and while no other task is inside the hardware calls
\* of a transfer of its own: the calls of two transfers never interleave
C3_TransfersExclusive ==
    (hw.task # 0 /\ hw.op \in TransferOps) =>
        (hw.lock = hw.task /\ hw.busy_xfer = {})

\* a transfer's hardware call completes while another task waits for the lock with
\* a transfer of its own
C3_Witness ==
    /\ hw.task # 0
    /\ hw.op \in TransferOps
    /\ \E u \in Tasks \ {hw.task} : task[u].pc = "lock" /\ task[u].op \in TransferOps

\* C4: from its first hardware call to its return, dev_attach holds the lock
C4_AttachHoldsLock ==
    \A t \in Tasks : (task[t].op = "dev_attach" /\ task[t].calls) => lock = t

(***************************************************************************)
(* Claims about one operation at a time (checked under Spec and SpecFair)  *)
(***************************************************************************)
\* C5: the data-stage INs of control_transfer and of get_device_descriptor carry
\* DATA1 after an even number of successful data-stage INs and DATA0 after an odd
\* number (so an IN retried after NAK carries the toggle again), and every
\* status-stage transaction carries DATA1
C5_ControlToggles ==
    /\ (hw.call = "data_in" /\ hw.stage \in {"data", "gd_data"}) =>
           hw.tog = (IF hw.in_ok = 0 THEN "DATA1" ELSE "DATA0")
    /\ (hw.call \in {"data_in", "data_out"}
           /\ hw.stage \in {"status", "gd_status", "sa_status"}) => hw.tog = "DATA1"

\* the second data-stage IN, carrying DATA0, is answered NAK and is about to be
\* issued again with DATA0
C5_Witness ==
    /\ hw.call = "data_in"
    /\ hw.stage = "data"
    /\ hw.in_ok = 1
    /\ hw.out = "NAK"
    /\ task[hw.task].stage = "data"
    /\ task[hw.task].pc \in DataInPcs \cup SplitPcs
    /\ task[hw.task].tog = "DATA0"

\* C6: the channel's toggle is DATA0 flipped once per interrupt_transfer that
\* returned Ok, and the transaction of an interrupt_transfer carries the toggle
\* the channel holds
C6_InterruptToggle ==
    /\ chan.tog = (IF chan.m_ok = 0 THEN "DATA0" ELSE "DATA1")
    /\ (hw.stage = "xfer" /\ hw.call \in {"data_in", "data_out"}) => hw.tog = hw.chan_tog

\* an interrupt_transfer returns an error on a channel whose toggle is DATA1
C6_Witness ==
    /\ ret.op = "interrupt_transfer"
    /\ ~ret.res.ok
    /\ chan.m_ok = 1
    /\ chan.tog = "DATA1"

\* C7: split_data_in makes at most 5 complete-split attempts after a start-split
\* and at most 3 start-split rounds, and when it gives up on NYET it has made 3
\* rounds of 5 attempts and the operation returns STALL
C7_SplitInBounded ==
    /\ \A t \in Tasks : task[t].m_cs <= 5 /\ task[t].m_rounds <= SSPLIT_ROUNDS
    /\ (ret.via = "cs_in" /\ ret.out = "NYET") =>
           (ret.res = Err("STALL") /\ ret.rounds = SSPLIT_ROUNDS /\ ret.cs = 5)

\* an operation returns STALL from the NYET path of split_data_in
C7_Witness ==
    /\ ret.via = "cs_in"
    /\ ret.out = "NYET"
    /\ ret.res = Err("STALL")
    /\ ret.rounds = 3

\* C8: a hardware primitive that never completes ends its transaction with
\* TransferTimeout
C8_EveryTransactionTimed ==
    hw.out = "Pending" => hw.txn = "TransferTimeout"

\* C9: an operation that holds the lock releases it, unless the device at some
\* point answers something other than NAK
C9_NakDeviceReturns ==
    \A t \in Tasks : [](lock = t => <>(lock # t \/ hw.out # "NAK"))

\* C10: control_transfer does not return Err(NAK)
C10_NoNakFromControlTransfer ==
    ret.op = "control_transfer" => ret.res # Err("NAK")

(***************************************************************************)
(* Claims C11 to C15: enumeration and the address table                    *)
(***************************************************************************)
\* C11: when dev_attach returns an error the address table is the table of the
\* moment dev_attach was called (checked under Spec)
C11_FailedAttachRestoresTable ==
    (ret.op = "dev_attach" /\ ~ret.res.ok) => info = ret.info0

\* dev_attach fails in the status stage of Set_Address, with other devices live
C11_Witness ==
    /\ ret.op = "dev_attach"
    /\ ret.stage = "sa_status"
    /\ ~ret.res.ok
    /\ ret.info0 # DeviceAddressManager_new
    /\ info = ret.info0

\* the addresses of the empty slots of tbl
FreeAddresses(tbl) == {i + 1 : i \in {j \in Indices : tbl[j] = PortInfo_invalid}}

\* C12: alloc_device_address hands out one address, the smallest of those not
\* live before the call, never 0 and at most NR_DEVICES, writes the parent's port
\* into that slot and changes no other slot (checked under SpecAddr)
C12_AllocSmallestFree ==
    last.op = "alloc_device_address" =>
        /\ Cardinality(last.mask) = 1
        /\ \A a \in last.mask :
              /\ a \in FreeAddresses(last.pre)
              /\ \A b \in FreeAddresses(last.pre) : a <= b
              /\ a >= 1 /\ a <= NR_DEVICES
              /\ info = [last.pre EXCEPT ![a - 1] = last.arg]
              /\ \E h \in BagToSet(handles) : h.address = a /\ h.parent.port = last.arg

\* an allocation fills the hole between two live addresses
C12_Witness ==
    /\ last.op = "alloc_device_address"
    /\ last.mask = {2}
    /\ ~is_empty(last.pre[0])
    /\ ~is_empty(last.pre[2])

\* following the parent links from slot i, having passed the slots seen, meets no
\* slot twice
RECURSIVE NoRevisit(_, _, _)
NoRevisit(tbl, i, seen) ==
    IF is_empty(tbl[i]) THEN TRUE
    ELSE LET p == parent_addr(tbl[i])[1] IN
         IF p = 0 \/ (p - 1) \notin Indices THEN TRUE
         ELSE IF (p - 1) \in seen THEN FALSE
         ELSE NoRevisit(tbl, p - 1, seen \cup {p - 1})

\* C13: the parent relation over the live slots is acyclic (checked under SpecAddr)
C13_ParentForestAcyclic ==
    \A i \in LiveSlots(info) : NoRevisit(info, i, {i})

\* the position of a stage in dev_attach
StageRank(stage) ==
    CASE stage = "gd_lock" -> 0
      [] stage = "gd_setup" -> 1
      [] stage = "gd_data" -> 2
      [] stage = "gd_status" -> 3
      [] stage = "sa_lock" -> 4
      [] stage = "sa_setup" -> 5
      [] stage = "sa_status" -> 6
      [] OTHER -> 0

\* the transaction each stage of dev_attach issues
StageCall(stage) ==
    CASE stage \in {"gd_setup", "sa_setup"} -> "setup"
      [] stage \in {"gd_data", "sa_status"} -> "data_in"
      [] stage = "gd_status" -> "data_out"
      [] OTHER -> "none"

AttachTransactions ==
    /\ (hw.op = "dev_attach" /\ hw.call # "split") =>
           (hw.addr = 0 /\ hw.call = StageCall(hw.stage))
    /\ \A t \in Tasks :
           (task[t].op = "dev_attach" /\ StageRank(task[t].stage) >= 3) =>
               task[t].bytes = DEVICE_DESCRIPTOR_SIZE
    /\ (ret.op = "dev_attach" /\ ret.res.ok) =>
           /\ ret.stage = "sa_status"
           /\ ret.value = ret.handle.address
           /\ ret.handle \in BagToSet(handles)
           /\ ret.handle.max_packet_size = ret.desc
           /\ ret.desc > 0
           /\ (ret.info0 = DeviceAddressManager_new => ret.handle.address = 1)

AttachOrder ==
    \A t \in Tasks :
        /\ (task[t].op # "dev_attach" /\ task'[t].op = "dev_attach") =>
               task'[t].stage = "gd_lock"
        /\ (task[t].op = "dev_attach" /\ task'[t].op = "dev_attach") =>
               StageRank(task'[t].stage) \in {StageRank(task[t].stage),
                                             StageRank(task[t].stage) + 1}

\* C14: every SETUP, IN and OUT of dev_attach goes to address 0; the stages come in
\* the order Get_Descriptor SETUP, INs until 18 bytes are read, status OUT,
\* Set_Address SETUP, status IN; the Set_Address request carries the address of the
\* handle returned, which is 1 on an empty table, and the handle has the
\* descriptor's max packet size (checked under Spec)
C14_AttachSequence == []AttachTransactions /\ [][AttachOrder]_vars

\* dev_attach on an empty table returns the handle of address 1
C14_Witness ==
    /\ ret.op = "dev_attach"
    /\ ret.res.ok
    /\ ret.info0 = DeviceAddressManager_new
    /\ ret.value = 1
    /\ ret.handle.address = 1
    /\ ret.handle.max_packet_size = 8

\* the split token that precedes the transaction at pc
TokenOf(pc) ==
    CASE pc = "ss_setup" -> "ss_tok_setup"
      [] pc = "cs_setup" -> "cs_tok_setup"
      [] pc = "ss_in" -> "ss_tok_in"
      [] pc = "cs_in" -> "cs_tok_in"
      [] pc = "ss_out" -> "ss_tok_out"
      [] pc = "cs_out" -> "cs_tok_out"
      [] OTHER -> "none"

StartOf(pc) ==
    CASE pc = "cs_tok_setup" -> "ss_setup"
      [] pc = "cs_tok_in" -> "ss_in"
      [] pc = "cs_tok_out" -> "ss_out"
      [] OTHER -> "none"

SplitAddressing ==
    /\ (hw.task # 0 /\ hw.tt = None) => (hw.call # "split" /\ hw.pc \in {"setup", "in", "out"})
    /\ (hw.task # 0 /\ hw.tt # None) =>
           IF hw.call = "split"
           THEN hw.addr = hw.tt[1][1]
           ELSE hw.addr = hw.target /\ TokenOf(hw.pc) # "none"

SplitOrder ==
    \A t \in Tasks :
        LET a == task[t].pc
            b == task'[t].pc IN
        \* a transaction is awaited right after its own token, which the TT accepted
        /\ (b # a /\ TokenOf(b) # "none") =>
               /\ a = TokenOf(b)
               /\ hw'.task = t /\ hw'.call = "split" /\ hw'.out = "Ok"
        \* a complete-split token follows the accepted start-split transaction, or a
        \* complete-split transaction answered NYET
        /\ (b # a /\ StartOf(b) # "none") =>
               /\ hw'.task = t /\ hw'.call # "split"
               /\ \/ a = StartOf(b) /\ hw'.out = "Ok"
                  \/ TokenOf(a) = b /\ hw'.out = "NYET"
        \* NYET: the complete-split is issued again
        /\ (a \in {"cs_setup", "cs_out"} /\ hw'.task = t /\ hw'.out = "NYET") =>
               b = TokenOf(a)

tt_rule(hub, port, spd) ==
    IF hub.parent.speed = "HighSpeed" /\ is_classic(spd)
    THEN Some(<<hub.address, port>>)
    ELSE hub.parent.transaction_translator

\* C16: the DevInfo of every DeviceAttach event of a hub carries the transaction
\* translator of the rule: (hub address, port) for a Low- or Full-speed child of a
\* High-speed hub, otherwise the hub's own.
C16_AttachObeysTTRule ==
    sup.event.kind = "DeviceAttach" =>
        LET d == sup.event.dev_info IN
        d.transaction_translator = tt_rule(sup.event.hub, d.port.port_on_parent, d.speed)

\* C17: when the bus reports DeviceDetach while a device is attached, the host
\* moves to Disconnected and no address stays allocated (so that the next root
\* device is given address 1 again).
C17_BusDetachFreesAll ==
    [][(HostRunning /\ host.state = "Idle" /\ host'.step.ev = "DeviceDetach") =>
           /\ host'.state = "Disconnected"
           /\ host'.address_alloc = DeviceAddressAllocator_new]_vars

\* the slots of the node on port pi and of its transitive descendants
PortSubtree(tbl, pi) == Closure(tbl, {i \in Indices : tbl[i] = pi})

\* C18: handling a hub's DeviceDetach(port) emits the mask of the addresses of the
\* node on that port and of its descendants, and keeps, in order, exactly the hubs
\* whose address is not in that mask.
C18_DetachPrunesHubs ==
    [][sup'.event.kind = "DeviceDetach" =>
           LET mask == {i + 1 : i \in PortSubtree(info, sup'.event.dev_info.port)} IN
           /\ sup'.emitted = Some(mask)
           /\ sup'.hubs = SelectSeq(sup.hubs, LAMBDA h : h.address \notin mask)
           /\ \A i \in 1 .. Len(sup'.hubs) : sup'.hubs[i].address \notin mask]_vars

\* hub 2 on the last port of hub 1 with device 3 below it is detached: the mask is
\* {2, 3}, hub 2 is dropped and hub 1 kept
C18_Witness ==
    /\ sup.event.kind = "DeviceDetach"
    /\ sup.event.dev_info.port = PortInfo_new(ValidBit + 1, MaxPort)
    /\ sup.emitted = Some({2, 3})
    /\ sup.dropped = {2}
    /\ Len(sup.hubs) = 1
    /\ sup.hubs[1].address = 1

\* C19: an error of the enumeration (the descriptor fetch, the address assignment,
\* the registration of a hub) leaves the host task running in Disconnected.
C19_EnumerationErrorsCaught ==
    host.step.err # "none" => (host.state = "Disconnected" /\ host.run = "running")

\* the state the claim gives for a bus event in Disconnected
DisconnectedNext(event) ==
    CASE event = "DeviceAttach" -> "DeviceEnumerate"
      [] event = "DeviceDetach" -> "Disconnected"
      [] event = "Suspend" -> "Suspended"
      [] event = "Resume" -> "Disconnected"

\* C20: in Disconnected the bus event alone decides the next state: DeviceAttach
\* starts the enumeration of the root device, DeviceDetach and Resume leave the
\* host in Disconnected, Suspend leads to Suspended.
C20_DisconnectedTransitions ==
    [][(HostRunning /\ host.state = "Disconnected" /\ host'.step.ev # "none") =>
           host'.state = DisconnectedNext(host'.step.ev)]_vars

\* C21: the pass that handles an attached device ends in the attached state (Idle),
\* having sent NewDevice when the device is no hub and none when it is one.
C21_NewDeviceUnlessHub ==
    [][(HostRunning /\ host.state = "DeviceAttached" /\ host' # host) =>
           /\ host'.state = "Idle" /\ host'.run = "running"
           /\ host'.step.msg = "NewDevice" <=> host.class # "hub"]_vars

\* C24: control_transfer runs its stages in order: after the setup succeeded the data
\* stage when wLength > 0 and else the status stage, after a data transaction
\* succeeded more data or the status stage, whose transaction runs opposite to the
\* request's direction; the stage that fails returns its error, the status stage
\* that succeeds returns Ok.
C24_StagesInOrder ==
    [][\A t \in Tasks :
         (task[t].op = "control_transfer" /\ hw'.task = t /\ hw'.txn \notin {"-", "never"}) =>
            LET a == task[t]
                b == task'[t]
                r == hw'.txn
            IN
            /\ (a.stage = "setup" /\ r = "Ok") =>
                  /\ b.stage = IF a.length > 0 THEN "data" ELSE "status"
                  /\ b.pc \in HwPcs
            /\ a.stage = "data" => a.length > 0
            /\ (a.stage = "data" /\ r = "Ok") => b.stage \in {"data", "status"} /\ b.pc \in HwPcs
            /\ (b.stage = "status" /\ a.stage # "status") => r = "Ok"
            /\ b.stage = "status" =>
                  b.pc \in IF a.dir = "HostToDevice" THEN {"in", "ss_tok_in"}
                           ELSE {"out", "ss_tok_out"}
            /\ (a.stage = "status" /\ r = "Ok") => ret'.task = t /\ ret'.res.ok
            /\ r \notin {"Ok", "NAK"} => ret'.task = t /\ ~ret'.res.ok /\ ret'.res.e = r]_vars

\* C25: the data stage of a DeviceToHost request ends at the first IN that returns
\* fewer bytes than the max packet size and goes on after every other one; the
\* transfer returns the sum of the lengths of its data packets.
C25_ShortPacketEndsData ==
    /\ [][\A t \in Tasks :
            (/\ task[t].op = "control_transfer" /\ task[t].stage = "data"
             /\ hw'.task = t /\ hw'.txn = "Ok") =>
               /\ task[t].dir = "DeviceToHost"
               /\ IF hw'.n < task[t].max_packet_size
                  THEN task'[t].stage = "status"
                  ELSE task'[t].stage = "data" /\ task'[t].pc \in {"in", "ss_tok_in"}]_vars
    /\ [](ret.op = "control_transfer" /\ ret.res.ok => ret.res.n = ret.sum)

\* a transfer returned after two full packets and a short one
C25_Witness ==
    /\ ret.op = "control_transfer" /\ ret.res.ok
    /\ ret.sum = 18 /\ ret.res.n = 18

(***************************************************************************)
(* Claims about Hub::poll (checked under SpecPoll)                         *)
(***************************************************************************)
\* the feature requests of the poll just made that name port p
ReqsFor(p) == SelectSeq(poll.step.out.reqs, LAMBDA r : r.port = p)

Issued(req) == \E k \in 1 .. Len(poll.step.out.reqs) : poll.step.out.reqs[k] = req

\* the poll just made read the status of port p
StatusRead(p) == poll.step.hub # 0 /\ p \in poll.step.out.read

\* ... and it showed a connection change with a device connected
ConnectReported(p) ==
    /\ StatusRead(p)
    /\ poll.step.report[p][2].connection
    /\ poll.step.report[p][1].connected

\* ... and it showed a connection change with no device connected
DisconnectReported(p) ==
    /\ StatusRead(p)
    /\ poll.step.report[p][2].connection
    /\ ~poll.step.report[p][1].connected

\* a poll made while an enumeration is in progress leaves a port that reports a
\* connection alone: no request for its connection change or its reset, no
\* DeviceReset, and the change bit still set after the poll
LeftLatched ==
    \A p \in Ports :
        (poll.step.eip /\ ConnectReported(p)) =>
            /\ \A k \in 1 .. Len(poll.step.out.reqs) :
                  poll.step.out.reqs[k].port = p =>
                     poll.step.out.reqs[k].feature \notin {"C_PORT_CONNECTION", "PORT_RESET"}
            /\ poll.step.out.event.kind # "DeviceReset"
            /\ poll.ports[<<poll.step.hub, p>>].c_connection

\* C26 (as stated): a poll made while an enumeration is in progress leaves a port
\* that reports a connection latched, and the first poll made with no enumeration
\* in progress handles it.
C26_HandledByFirstPoll ==
    /\ []LeftLatched
    /\ [][\A hp \in poll.deferred :
            (/\ poll'.step.hub = hp[1] /\ ~poll'.step.eip
             /\ poll'.step.irq = "Ok" /\ poll'.step.out.res = "Ok"
             /\ poll'.step.out.asked = poll'.step.out.read) =>
                \E k \in 1 .. Len(poll'.step.out.reqs) :
                    poll'.step.out.reqs[k] =
                        [op |-> "Clear_Feature", feature |-> "C_PORT_CONNECTION",
                         port |-> hp[2]]]_vars

\* C26 (amended): a poll made while an enumeration is in progress leaves a port
\* that reports a connection latched, and a poll made with no enumeration in
\* progress that reads that status handles it: the first one that gets as far as
\* the port, which an event of a lower-numbered port keeps it from.
C26_DeferredWhileEnumerating ==
    /\ LeftLatched
    /\ \A p \in Ports :
          (~poll.step.eip /\ ConnectReported(p)) =>
              Issued([op |-> "Clear_Feature", feature |-> "C_PORT_CONNECTION", port |-> p])

\* a port reported a connection to a poll made during an enumeration and is put off
C26_Witness ==
    /\ poll.step.eip
    /\ \E p \in Ports : ConnectReported(p) /\ <<poll.step.hub, p>> \in poll.deferred
    /\ poll.step.out.event.kind = "None"

\* C27: between a hub's DeviceReset and the completion of the dev_attach for that
\* port no Set_Feature(PORT_RESET) goes to another port: at most one newly reset
\* device is at address 0.
C27_OneResetAtATime ==
    [][\A k \in 1 .. Len(poll'.step.out.reqs) :
         (poll.resetting # None /\ poll'.step.out.reqs[k].feature = "PORT_RESET") =>
             <<poll'.step.hub, poll'.step.out.reqs[k].port>> = poll.resetting[1]]_vars

\* while the reset of one port awaits its dev_attach, another port reports a
\* connection and is not reset
C27_Witness ==
    /\ poll.resetting # None
    /\ poll.step.eip
    /\ \E p \in Ports :
          /\ ConnectReported(p)
          /\ <<poll.step.hub, p>> # poll.resetting[1]
          /\ ~poll.ports[<<poll.step.hub, p>>].reset

\* C28: a poll made with no enumeration in progress answers a port that reports a
\* connection with Clear_Feature(C_PORT_CONNECTION) and then Set_Feature(PORT_RESET),
\* nothing else, and returns DeviceReset when both succeeded; no higher-numbered
\* port is asked for its status or sent a request in that poll.
C28_ClearThenReset ==
    \A p \in Ports :
        (~poll.step.eip /\ ConnectReported(p)) =>
            LET clear == [op |-> "Clear_Feature", feature |-> "C_PORT_CONNECTION", port |-> p]
                set == [op |-> "Set_Feature", feature |-> "PORT_RESET", port |-> p]
            IN
            /\ ReqsFor(p) \in {<<clear>>, <<clear, set>>}
            /\ poll.step.out.res = "Ok" =>
                  /\ ReqsFor(p) = <<clear, set>>
                  /\ poll.step.out.done = poll.step.out.reqs
                  /\ poll.step.out.event.kind = "DeviceReset"
            /\ ReqsFor(p) = <<clear>> => poll.step.out.res = "Err"
            /\ \A q \in poll.step.out.asked : q <= p
            /\ \A k \in 1 .. Len(poll.step.out.reqs) : poll.step.out.reqs[k].port <= p

\* the lower of two ports that report a connection is reset, the higher is left
C28_Witness ==
    /\ ~poll.step.eip
    /\ poll.step.out.event.kind = "DeviceReset"
    /\ \E p \in Ports, q \in Ports :
          /\ p < q
          /\ ConnectReported(p)
          /\ poll.ports[<<poll.step.hub, p>>].reset
          /\ poll.ports[<<poll.step.hub, q>>].c_connection
          /\ poll.ports[<<poll.step.hub, q>>].connected

\* the poll just made returned DeviceAttach for port p
AttachEvent(p) ==
    /\ poll.step.out.event.kind = "DeviceAttach"
    /\ poll.step.out.event.dev_info.port = PortInfo_new(ValidBit + poll.step.hub, p)

DetachNamesPort ==
    \A p \in Ports :
        (/\ poll'.step.hub # 0 /\ p \in poll'.step.out.read
         /\ poll'.step.report[p][2].connection /\ ~poll'.step.report[p][1].connected) =>
            LET out == poll'.step.out
                pi == out.event.dev_info.port
            IN
            /\ out.reqs # <<>>
            /\ out.reqs[Len(out.reqs)] =
                  [op |-> "Clear_Feature", feature |-> "C_PORT_CONNECTION", port |-> p]
            /\ out.res = "Ok" =>
                  /\ out.event.kind = "DeviceDetach"
                  /\ pi = PortInfo_new(ValidBit + poll'.step.hub, p)
                  /\ \A i \in Indices :
                        poll.origin[i] = Some(<<poll'.step.hub, p>>) =>
                            /\ info[i] = pi
                            /\ find_index(info, pi) = Some(i)
                            /\ (i + 1) \in sup'.emitted[1]
            /\ out.res # "Ok" => out.res = "Err" /\ out.event.kind = "None"

\* C30: a port that reports a connection change with no device connected gets
\* Clear_Feature(C_PORT_CONNECTION) and the poll returns DeviceDetach naming this
\* hub and that port, whether an enumeration is in progress or not; the port named
\* is the PortInfo the table holds for the device enumerated from that port.
C30_DetachNamesPort == [][DetachNamesPort]_vars

\* a device that was enumerated from a port is reported detached while another
\* enumeration is in progress
C30_Witness ==
    /\ poll.step.eip
    /\ poll.step.out.event.kind = "DeviceDetach"
    /\ sup.emitted # None /\ sup.emitted # Some({})

(***************************************************************************)
(* Claims about the dispatcher (checked under SpecDisp)                    *)
(***************************************************************************)
\* C22: the task of a detached device that gets an error from a transfer returns
\* from run and its slot becomes Empty (the step in which every such task is to
\* end).
C22_GoneTaskReturns ==
    [][\A i \in Indices :
         (/\ disp.poller[i].state = "Occupied" /\ disp.poller[i].gone
          /\ disp'.step.kind = "task" /\ disp'.step.slot = Some(i) /\ disp'.step.err) =>
             disp'.poller[i].state = "Empty"]_vars

\* C23: a device received while every slot is occupied is rejected: the poller is
\* left as it is, slot by slot, and so is the address table; an address leaves the
\* table only in a detach.
C23_FullPollerRejects ==
    /\ [][(/\ disp'.step.kind = "receive"
           /\ \A i \in Indices : disp.poller[i].state = "Occupied") =>
              /\ disp'.poller = disp.poller
              /\ disp'.step.res \in {"IndexOutOfBounds", "AttachFailed"}
              /\ info' = info]_vars
    /\ [][\A i \in Indices :
            (~is_empty(info[i]) /\ is_empty(info'[i])) => disp'.step.kind = "detach"]_vars

\* a device whose driver attached finds no slot; its address is still in the table
C23_Witness ==
    /\ disp.step.kind = "receive"
    /\ disp.step.res = "IndexOutOfBounds"
    /\ \A i \in Indices : disp.poller[i].state = "Occupied"
    /\ ~is_empty(info[disp.step.device - 1])

(***************************************************************************)
(* Claims C31 to C40                                                       *)
(***************************************************************************)
\* every live slot hangs under the root (parent address 0) or under a live slot
ParentsLive(tbl) ==
    \A i \in LiveSlots(tbl) :
        \/ parent_addr(tbl[i]) = Some(0)
        \/ /\ parent_addr(tbl[i])[1] - 1 \in Indices
           /\ ~is_empty(tbl[parent_addr(tbl[i])[1] - 1])

\* every live slot is reached from a slot with parent address 0: the table is
\* a forest built by allocating under the root or under a live parent only
Rooted(tbl) ==
    LiveSlots(tbl) = Closure(tbl, {i \in LiveSlots(tbl) : parent_addr(tbl[i]) = Some(0)})

\* C31: free_subtree (for any node, the root device included) and
\* free_all_addresses, called on a table in which every live slot hangs under
\* the root through live slots, leave every live slot's parent address 0 or
\* the address of a live slot: no live slot is left under a freed ancestor.
C31_NoOrphanLeft ==
    [][(/\ last'.op \in {"free_subtree", "free_all_addresses"}
        /\ Rooted(info)) => ParentsLive(info')]_vars

\* C32: a transfer requested with a DeviceHandle or InterruptChannel whose
\* address has been freed by dev_detach or root_detach issues no hardware
\* transaction: every transaction of control_transfer or interrupt_transfer
\* goes to an address whose slot is live.
C32_NoTransactionOnFreedAddress ==
    hw.op \in TransferOps => ~is_empty(info[hw.target - 1])

\* C33: when enumeration is abandoned because the bus reports DeviceDetach while
\* dev_attach is in progress, whichever suspension point the attach future is
\* dropped at, no address remains allocated for the abandoned device.
C33_AbandonedAttachFreesAddress ==
    [][(/\ host.state = "DeviceEnumerate"
        /\ host.pc = "assign_device_address"
        /\ host'.state = "Disconnected"
        /\ host'.step.ev = "DeviceDetach") => host.addr \notin host'.address_alloc]_vars

\* C34: HostHandle::control_transfer always receives the ControlTransferResponse
\* of its own request: whatever the client and the bus do meanwhile, the message
\* its receive takes is no other (no NewDevice of a device attached since), and
\* the call does not panic.
C34_OwnResponse ==
    [][(client.pc = "control_transfer" /\ client'.pc # "control_transfer") =>
           /\ client'.got = "ControlTransferResponse"
           /\ client'.pc = "idle"]_vars

\* C35: control_transfer returns a Result for every request it is given, a
\* HostToDevice request with wLength > 0 (the DFU download block) included: the
\* task that called it is never aborted by a panic.
C35_ControlTransferNeverPanics ==
    \A t \in Tasks : task[t].op = "control_transfer" => task[t].pc # "panic"

(***************************************************************************)
(* Claims about StaticUnpinPoller (checked under SpecUnpin)                *)
(***************************************************************************)
OccupiedSlots(slots) == {i \in Indices : slots[i].state = "Occupied"}

ReadySlots(slots) == {i \in OccupiedSlots(slots) : slots[i].pc = "ready"}

\* C36: poll_next polls the occupied slots in index order and returns
\* Ready(Some((idx, output))) for the first slot whose task completes, marking
\* exactly that slot Empty; it returns Pending when at least one slot is occupied
\* and none completed, and Ready(None) exactly when no slot is occupied.
C36_PollNextFirstReady ==
    [][unpin'.step.op = "poll_next" =>
         LET s == unpin.states
             occ == OccupiedSlots(s)
             rdy == ReadySlots(s)
             st == unpin'.step
             due == {i \in occ : rdy = {} \/ i <= FirstOf(rdy)} IN
         /\ Len(st.polled) = Cardinality(due)
         /\ \A k \in 1 .. Len(st.polled) :
               /\ st.polled[k] \in due
               /\ k > 1 => st.polled[k - 1] < st.polled[k]
         /\ rdy # {} =>
               /\ st.res = "Ready(Some)"
               /\ st.index = Some(FirstOf(rdy))
               /\ st.task = s[FirstOf(rdy)].device
               /\ unpin'.states = [s EXCEPT ![FirstOf(rdy)] = SlotEmpty]
         /\ rdy = {} => unpin'.states = s /\ st.index = None
         /\ st.res = "Pending" <=> (occ # {} /\ rdy = {})
         /\ st.res = "Ready(None)" <=> occ = {}]_vars

\* a poll that passes a pending task, returns the next and leaves a ready one behind
C36_Witness ==
    /\ unpin.step.op = "poll_next"
    /\ unpin.step.res = "Ready(Some)"
    /\ Len(unpin.step.polled) = 2
    /\ unpin.states[unpin.step.polled[1]].pc = "pending"
    /\ \E j \in ReadySlots(unpin.states) : j > unpin.step.index[1]

\* C37: insert places the task in an empty slot and marks it Occupied whenever
\* at least one slot is Empty, and returns an error leaving every slot and its
\* task as they were when all slots are Occupied; a slot emptied by a completed
\* task is filled again by a later insert.
C37_InsertFillsEmptySlot ==
    [][unpin'.step.op = "insert" =>
         LET s == unpin.states
             empty == Indices \ OccupiedSlots(s) IN
         /\ empty # {} =>
               /\ unpin'.step.res = "Ok"
               /\ \E i \in empty :
                     /\ unpin'.states = [s EXCEPT ![i] = TaskFuture(unpin.inserted + 1)]
                     /\ unpin'.states[i].state = "Occupied"
         /\ empty = {} =>
               /\ unpin'.step.res = "IndexOutOfBounds"
               /\ unpin'.states = s]_vars

\* an insert into a slot that a returned task left, while the other slots are taken
C37_Witness ==
    /\ unpin.step.op = "insert"
    /\ unpin.step.res = "Ok"
    /\ unpin.returned # {}
    /\ OccupiedSlots(unpin.states) = Indices
    /\ \E i \in Indices : /\ unpin.states[i].device = unpin.inserted
                           /\ \E n \in unpin.returned : n < unpin.inserted

\* the tasks inserted and not returned yet
Outstanding == (1 .. unpin.inserted) \ unpin.returned

LenCounts ==
    /\ poller_len(unpin.states) = Cardinality(Outstanding)
    /\ poller_is_empty(unpin.states) <=> poller_len(unpin.states) = 0
    /\ \A n \in Outstanding :
          Cardinality({i \in OccupiedSlots(unpin.states) : unpin.states[i].device = n}) = 1
    /\ \A i \in OccupiedSlots(unpin.states) : unpin.states[i].device \in Outstanding

ReturnedOnce ==
    unpin'.step.op = "poll_next" =>
        LET s == unpin.states
            st == unpin'.step IN
        /\ \A k \in 1 .. Len(st.polled) : s[st.polled[k]].device \notin unpin.returned
        /\ st.index # None =>
              /\ st.task \notin unpin.returned
              /\ unpin'.returned = unpin.returned \cup {st.task}
        /\ st.index = None => unpin'.returned = unpin.returned
        /\ \A j \in ReadySlots(s) : Some(j) # st.index => unpin'.states[j] = s[j]

\* C38: each inserted task's output is returned by exactly one poll_next, after
\* which the task is never polled again; a task that is ready while a task of
\* lower index completes first stays Occupied (and ready for a later poll_next);
\* len() is the number of inserted tasks not yet returned, and is_empty() holds
\* exactly when len() = 0.
C38_ReturnedExactlyOnce == []LenCounts /\ [][ReturnedOnce]_vars

\* a ready task left Occupied by the poll_next that returned one of lower index
C38_Witness ==
    /\ unpin.step.op = "poll_next"
    /\ unpin.step.index # None
    /\ \E j \in ReadySlots(unpin.states) : j > unpin.step.index[1]
    /\ Cardinality(unpin.returned) >= 2
    /\ poller_len(unpin.states) = unpin.inserted - Cardinality(unpin.returned)

\* C39: iterating a DescriptorIterator over a finite buffer terminates without
\* reading outside the buffer: every Ok item advances the offset by at least one
\* byte and never past the end of the buffer, after an Err item the iterator
\* yields nothing more, and no call aborts.
C39_IterationAdvances ==
    /\ iter.item = "Ok" => (iter.before < iter.offset /\ iter.offset <= Len(iter.buf))
    /\ iter.item = "Err" => iter.offset >= Len(iter.buf)
    /\ iter.item # "panic"

(***************************************************************************)
(* Claims about BusWrap (checked under SpecBus)                            *)
(***************************************************************************)
AttachesDelivered == Cardinality({i \in DOMAIN bus.log : bus.log[i] = "DeviceAttach"})

\* an event is delivered in this step
Delivered == Len(bus'.log) > Len(bus.log)

\* C40: every DeviceAttach delivered by BusWrap::poll comes after a reset of the
\* bus that completed, and its settle delay, both after the bus reported the
\* attach; DeviceDetach, Suspend and Resume are delivered as the bus reported
\* them, with no reset: the resets made are those of the attaches delivered, and
\* of the one whose delay is running.
C40_AttachAfterReset ==
    /\ [](bus.resets = AttachesDelivered + (IF bus.pc = "timer" THEN 1 ELSE 0))
    /\ [][Delivered =>
            LET e == bus'.log[Len(bus'.log)] IN
            IF e = "DeviceAttach"
            THEN bus.raw = "DeviceAttach" /\ bus.reset /\ bus.pc = "timer"
            ELSE e = bus'.raw /\ ~bus'.reset /\ bus'.resets = bus.resets]_vars

C40_Witness ==
    /\ bus.resets = 1
    /\ \E i, j \in DOMAIN bus.log :
          bus.log[i] = "DeviceAttach" /\ bus.log[j] \in {"DeviceDetach", "Suspend", "Resume"}

=============================================================================
